---- MODULE Spec2Model ----
(***************************************************************************)
(* Model of the train-service cache of the departure board                 *)
(* (TrainServiceParser, src/Src/train_service_parser.{h,cpp}).             *)
(*                                                                         *)
(* Strings that the code builds character by character are modelled as     *)
(* tuples of tokens; a JSON document is modelled by the values the code    *)
(* extracts from it (an absent or null field is the extractor's default).  *)
(***************************************************************************)
EXTENDS Integers, Sequences, FiniteSets, TLC

\* ------------------------------------------------------------------------
\* Bounds of the model
\* ------------------------------------------------------------------------

\* max_json_size: the configured maximum of tracked services (10 on the board).
MaxServices == 3

\* number_of_departures: the configured number of departures kept (3 on the board).
NumDepartures == 1

\* Versions handed to ingestion are drawn from 1..MaxVersion (the API client
\* counts its fetches: the first document has version 1).
MaxVersion == 2

\* The longest trainServices array of a payload.
MaxFeedLen == 3
\* Ingestion calls in a behaviour.
MaxIngestions == 2
\* Calls other than ingestions after one ingestion call.
MaxCalls == 2
\* The largest service index asked for.
MaxIndex == 1

\* ------------------------------------------------------------------------
\* Program constants
\* ------------------------------------------------------------------------

\* The "no service" index value.
Sentinel == 999

INVALID_TIME == 0

Indices == 0 .. (MaxServices - 1)

Versions == 1 .. MaxVersion

\* The values a version stamp can hold.
Stamps == 0 .. MaxVersion

Min(a, b) == IF a < b THEN a ELSE b

\* ------------------------------------------------------------------------
\* The feed: JSON payloads
\* ------------------------------------------------------------------------
\* An ISO time of the feed is [hm |-> characters 11..15, secs |-> its time_t];
\* NoTime is an absent, null or empty time field.
NoTime == [hm |-> "", secs |-> 0]

T0900 == [hm |-> "09:00", secs |-> 32400]

T1000 == [hm |-> "10:00", secs |-> 36000]

T1007 == [hm |-> "10:07", secs |-> 36420]

T0940 == [hm |-> "09:40", secs |-> 34800]

T1030 == [hm |-> "10:30", secs |-> 37800]

T1037 == [hm |-> "10:37", secs |-> 38220]

\* A subsequent location of a service: atd/etd/std are NoTime when not specified.
SubLoc(name, pass, atd, etd, std) ==
    [locationName |-> name, isPass |-> pass, isCancelled |-> FALSE,
     atd |-> atd, etd |-> etd, std |-> std]

\* A previous location of a service.
PrevLoc(name, pass, type) ==
    [locationName |-> name, isPass |-> pass, isCancelled |-> FALSE,
     arrivalType |-> type, ata |-> NoTime, eta |-> NoTime, sta |-> NoTime]

\* The JSON value null and the object {}: every extractor answers its default.
SvcNull ==
    [trainid |-> "", stdSpecified |-> FALSE, std |-> NoTime,
     etdSpecified |-> FALSE, etd |-> NoTime, platform |-> "",
     destination |-> "", operator |-> "", length |-> 0,
     isCancelled |-> FALSE, cancelReason |-> 0, delayReason |-> 0,
     adhocAlerts |-> "", departureType |-> "",
     origin |-> "", platformIsHidden |-> FALSE,
     subsequentLocations |-> << >>, previousLocations |-> << >>]

\* Service A as first published.
SvcA1 ==
    [SvcNull EXCEPT !.trainid = "A", !.stdSpecified = TRUE, !.std = T1000,
                    !.platform = "1", !.destination = "Oxford",
                    !.operator = "GWR", !.length = 8, !.origin = "London",
                    !.subsequentLocations =
                        << SubLoc("Reading", FALSE, NoTime, NoTime, T1030) >>,
                    !.previousLocations =
                        << PrevLoc("Slough", FALSE, "Actual") >>]

\* Service A in a later poll: estimate, platform, static and dynamic fields changed.
SvcA2 ==
    [SvcNull EXCEPT !.trainid = "A", !.stdSpecified = TRUE, !.std = T1000,
                    !.etdSpecified = TRUE, !.etd = T1007,
                    !.platform = "2", !.destination = "Didcot",
                    !.operator = "GWR", !.length = 5, !.origin = "Ealing",
                    !.delayReason = 7, !.platformIsHidden = TRUE,
                    !.subsequentLocations =
                        << SubLoc("Reading", FALSE, NoTime, T1037, T1030),
                           SubLoc("Tilehurst", TRUE, NoTime, NoTime, NoTime),
                           SubLoc("Didcot", FALSE, NoTime, NoTime, NoTime) >>,
                    !.previousLocations =
                        << PrevLoc("Slough", FALSE, "Actual"),
                           PrevLoc("Maidenhead", FALSE, "Forecast") >>]

\* Service B: cancelled, departs before A.
SvcB1 ==
    [SvcNull EXCEPT !.trainid = "B", !.stdSpecified = TRUE, !.std = T0900,
                    !.platform = "1", !.destination = "Bristol",
                    !.operator = "XC", !.origin = "York",
                    !.isCancelled = TRUE, !.cancelReason = 7,
                    !.subsequentLocations =
                        << SubLoc("Swindon", FALSE, NoTime, NoTime, T0940) >>]

\* A JSON document: the top-level fields the parser reads (an absent or null
\* trainServices is the empty array: both give a service count of 0).
Doc(svcs, loc, msgs) ==
    [trainServices |-> svcs, locationName |-> loc, nrccMessages |-> msgs]

\* The document held before the first ingestion (json data; a null value).
NullDoc == Doc(<< >>, "", << >>)

\* The text of a document.
Text(doc) == [wellFormed |-> TRUE, doc |-> doc]

\* A text that is not JSON.
Malformed == [wellFormed |-> FALSE, doc |-> NullDoc]

\* ------------------------------------------------------------------------
\* Text sanitizer (HTMLProcessor::processHtmlTagsInPlace)
\* ------------------------------------------------------------------------
\* A text is a tuple of one-character strings.

\* The entity table: the characters of the entity and its replacement.
entities ==
    << [entity |-> << "&", "q", "u", "o", "t", ";" >>, replacement |-> "\""],
       [entity |-> << "&", "a", "m", "p", ";" >>, replacement |-> "&"],
       [entity |-> << "&", "l", "t", ";" >>, replacement |-> "<"],
       [entity |-> << "&", "g", "t", ";" >>, replacement |-> ">"],
       [entity |-> << "&", "#", "3", "9", ";" >>, replacement |-> "'"],
       [entity |-> << "&", "n", "b", "s", "p", ";" >>, replacement |-> " "] >>

\* memcmp(html + pos, entity, length) == 0 with remaining >= length (pos is 1-based).
EntityAt(html, len, pos, e) ==
    /\ len - pos + 1 >= Len(e.entity)
    /\ \A k \in 1 .. Len(e.entity) : html[pos + k - 1] = e.entity[k]

\* The first entity of the table that matches at pos, or 0.
FirstEntity(html, len, pos) ==
    LET hits == {n \in 1 .. Len(entities) : EntityAt(html, len, pos, entities[n])}
    IN  IF hits = {} THEN 0 ELSE CHOOSE n \in hits : \A m \in hits : n <= m

RECURSIVE InPlaceScan(_, _, _, _, _)
\* The loop of processHtmlTagsInPlace: html is overwritten at writePos while it is
\* read at readPos; the result is html truncated to the characters written.
InPlaceScan(html, len, readPos, writePos, inTag) ==
    IF readPos > len THEN SubSeq(html, 1, writePos)
    ELSE LET c == html[readPos]
         IN  IF c = "<" THEN InPlaceScan(html, len, readPos + 1, writePos, TRUE)
             ELSE IF c = ">" THEN InPlaceScan(html, len, readPos + 1, writePos, FALSE)
             ELSE IF inTag THEN InPlaceScan(html, len, readPos + 1, writePos, inTag)
             ELSE IF c = "&"
                  THEN LET n == FirstEntity(html, len, readPos)
                       IN  IF n # 0
                           THEN InPlaceScan(
                                    [html EXCEPT ![writePos + 1] = entities[n].replacement],
                                    len, readPos + Len(entities[n].entity),
                                    writePos + 1, inTag)
                           ELSE InPlaceScan([html EXCEPT ![writePos + 1] = c],
                                            len, readPos + 1, writePos + 1, inTag)
             ELSE IF c # "\n" /\ c # "\r"
                  THEN InPlaceScan([html EXCEPT ![writePos + 1] = c],
                                   len, readPos + 1, writePos + 1, inTag)
             ELSE InPlaceScan(html, len, readPos + 1, writePos, inTag)

processHtmlTagsInPlace(html) ==
    IF html = << >> THEN html ELSE InPlaceScan(html, Len(html), 1, 0, FALSE)

\* ------------------------------------------------------------------------
\* Text sanitizer: the copying paths (HTMLProcessor::processHtmlTagsRegular,
\* processHtmlTagsNEON, processHtmlTags, processEntitiesOnly)
\* ------------------------------------------------------------------------
\* Positions are those of the code (from 0); html[p + 1] is the character at p.

NEON_CHUNK_SIZE == 16

neon_threshold == 64

\* NEON_AVAILABLE of the build for the board's processor.
neon_available == TRUE

RECURSIVE EntitiesOnlyScan(_, _, _, _)
\* The loop of processEntitiesOnly: entities are decoded, all else is kept.
EntitiesOnlyScan(html, length, i, buffer) ==
    IF i >= length THEN buffer
    ELSE LET c == html[i + 1]
             n == FirstEntity(html, length, i + 1)
         IN  IF c = "&" /\ n # 0
             THEN EntitiesOnlyScan(html, length, i + Len(entities[n].entity),
                                   Append(buffer, entities[n].replacement))
             ELSE EntitiesOnlyScan(html, length, i + 1, Append(buffer, c))

processEntitiesOnly(html) ==
    IF html = << >> THEN << >> ELSE EntitiesOnlyScan(html, Len(html), 0, << >>)

RECURSIVE RegularScan(_, _, _, _, _)
\* The character loop of processHtmlTagsRegular from position i.
RegularScan(html, length, i, inTag, buffer) ==
    IF i >= length THEN buffer
    ELSE LET c == html[i + 1]
         IN  IF c = "<" THEN RegularScan(html, length, i + 1, TRUE, buffer)
             ELSE IF c = ">" THEN RegularScan(html, length, i + 1, FALSE, buffer)
             ELSE IF inTag THEN RegularScan(html, length, i + 1, inTag, buffer)
             ELSE IF c = "&"
                  THEN LET n == FirstEntity(html, length, i + 1)
                       IN  IF n # 0
                           THEN RegularScan(html, length,
                                            i + Len(entities[n].entity), inTag,
                                            Append(buffer, entities[n].replacement))
                           ELSE RegularScan(html, length, i + 1, inTag,
                                            Append(buffer, c))
             ELSE IF c # "\n" /\ c # "\r"
                  THEN RegularScan(html, length, i + 1, inTag, Append(buffer, c))
             ELSE RegularScan(html, length, i + 1, inTag, buffer)

processHtmlTagsRegular(html) ==
    IF html = << >> THEN << >> ELSE RegularScan(html, Len(html), 0, FALSE, << >>)

\* The characters the vector comparisons look for.
Special == {"<", ">", "&", "\n", "\r"}

RECURSIVE NEONChunk(_, _, _, _, _, _)
\* The character loop over one chunk that holds a special character: j is the
\* place within the chunk at i; the chunk ends at place NEON_CHUNK_SIZE wherever
\* an entity has taken j.
NEONChunk(html, length, i, j, inTag, buffer) ==
    IF ~(j < NEON_CHUNK_SIZE /\ i + j < length)
    THEN [inTag |-> inTag, buffer |-> buffer]
    ELSE LET c == html[i + j + 1]
         IN  IF c = "<" THEN NEONChunk(html, length, i, j + 1, TRUE, buffer)
             ELSE IF c = ">" THEN NEONChunk(html, length, i, j + 1, FALSE, buffer)
             ELSE IF inTag THEN NEONChunk(html, length, i, j + 1, inTag, buffer)
             ELSE IF c = "&"
                  THEN LET n == FirstEntity(html, length, i + j + 1)
                       IN  IF n # 0
                           THEN NEONChunk(html, length, i,
                                          j + Len(entities[n].entity), inTag,
                                          Append(buffer, entities[n].replacement))
                           ELSE NEONChunk(html, length, i, j + 1, inTag,
                                          Append(buffer, c))
             ELSE IF c # "\n" /\ c # "\r"
                  THEN NEONChunk(html, length, i, j + 1, inTag, Append(buffer, c))
             ELSE NEONChunk(html, length, i, j + 1, inTag, buffer)

RECURSIVE NEONScan(_, _, _, _, _, _)
\* The chunk loop of processHtmlTagsNEON, then the remaining characters.
NEONScan(html, length, neon_end, i, inTag, buffer) ==
    IF i < neon_end
    THEN IF \A j \in 0 .. (NEON_CHUNK_SIZE - 1) : html[i + j + 1] \notin Special
         THEN NEONScan(html, length, neon_end, i + NEON_CHUNK_SIZE, inTag,
                       IF inTag THEN buffer
                       ELSE buffer \o SubSeq(html, i + 1, i + NEON_CHUNK_SIZE))
         ELSE LET chunk == NEONChunk(html, length, i, 0, inTag, buffer)
              IN  NEONScan(html, length, neon_end, i + NEON_CHUNK_SIZE,
                           chunk.inTag, chunk.buffer)
    ELSE RegularScan(html, length, i, inTag, buffer)

processHtmlTagsNEON(html) ==
    IF html = << >> THEN << >>
    ELSE NEONScan(html, Len(html),
                  (Len(html) \div NEON_CHUNK_SIZE) * NEON_CHUNK_SIZE, 0, FALSE, << >>)

processHtmlTags(html) ==
    IF html = << >> THEN << >>
    ELSE IF Len(html) >= neon_threshold /\ neon_available
         THEN processHtmlTagsNEON(html)
         ELSE processHtmlTagsRegular(html)

\* The texts handed to the sanitizers: a run of plain characters, one pattern
\* (an entity, a tag, a line end, a lone special character or nothing) and a
\* tail, so that the pattern lies before, across or after the end of a chunk.
Fill(n, c) == [k \in 1 .. n |-> c]

Offsets == {0} \cup (11 .. 15)

Tails == {<< >>, << "y" >>, Fill(3 * NEON_CHUNK_SIZE + 4, "y")}

Patterns ==
    {entities[n].entity : n \in 1 .. Len(entities)}
    \cup {<< >>, << "<", "b", ">" >>, << "\n" >>, << "\r" >>, << "&" >>,
          << "&", "x", ";" >>, << ">" >>}

\* "A &amp; B <b>bold</b>\n"
Marked ==
    << "A", " ", "&", "a", "m", "p", ";", " ", "B", " ", "<", "b", ">",
       "b", "o", "l", "d", "<", "/", "b", ">", "\n" >>

Texts ==
    {Fill(p, "x") \o pat \o t : p \in Offsets, pat \in Patterns, t \in Tails}
    \cup {Marked}

\* No sanitizer call in progress.
NoScan ==
    [pc |-> "none", input |-> << >>, html |-> << >>, readPos |-> 0,
     writePos |-> 0, inTag |-> FALSE, regular |-> << >>, neon |-> << >>,
     selected |-> << >>]

\* ------------------------------------------------------------------------
\* Payloads offered to ingestion
\* ------------------------------------------------------------------------

\* An element of nrccMessages: has is FALSE when xhtmlMessage is absent or null.
Msg(text) == [has |-> TRUE, xhtmlMessage |-> text]

MsgDelays ==
    Msg(<< "\n", "<", "p", ">", "A", "&", "a", "m", "p", ";", "B", "<", "/", "p", ">" >>)

MsgEmpty == [has |-> FALSE, xhtmlMessage |-> << >>]

\* Every text handed to ingestion: the well-formed payloads and one malformed text.
Payloads ==
    {Text(Doc(d, "Didcot", << >>)) :
        d \in {f \in {<< SvcA1, SvcA2, SvcB1 >>, << SvcA2, SvcB1 >>} : Len(f) <= MaxFeedLen}}
    \cup {Text(Doc(<< SvcB1 >>, "", << MsgDelays, MsgEmpty >>)), Malformed}

\* Service T: it terminates here, so it has an arrival and no "std".
SvcT ==
    [SvcNull EXCEPT !.trainid = "T", !.platform = "1", !.destination = "Didcot",
                    !.operator = "GWR", !.origin = "Oxford"]

\* Service U: another arrival, on the other platform.
SvcU ==
    [SvcNull EXCEPT !.trainid = "U", !.platform = "2", !.destination = "Didcot",
                    !.operator = "XC", !.origin = "Leeds"]

\* Service C: it leaves at the time of service A, from the other platform.
SvcC ==
    [SvcNull EXCEPT !.trainid = "C", !.stdSpecified = TRUE, !.std = T1000,
                    !.platform = "2", !.destination = "Cardiff",
                    !.operator = "GWR", !.origin = "London"]

\* The documents handed to ingestion where the ordering and the selection are
\* examined: an arrival listed before two departures of one time, two arrivals
\* listed before a departure, one departure, and no service at all.
Feeds ==
    {Text(Doc(d, "Didcot", << >>)) :
        d \in {f \in {<< SvcT, SvcC, SvcA1 >>, << SvcT, SvcU, SvcB1 >>,
                      << SvcB1 >>, << >>} : Len(f) <= MaxFeedLen}}

\* The reason-code feed: records {code, lateReason, cancReason}.
ReasonFeed ==
    << [code |-> 7, lateReason |-> "late: signal failure", cancReason |-> "cancelled: signal failure"] >>

\* ------------------------------------------------------------------------
\* State of the parser (private members of TrainServiceParser)
\* ------------------------------------------------------------------------
VARIABLES
    refdata_loaded,          \* reason codes have been loaded
    reason_codes,            \* code string -> index into delay_cancel_reasons
    delay_cancel_reasons,    \* the stored reason records (index 0 is element 1)
    data,                    \* the published raw JSON document
    api_data_version,        \* the published snapshot version
    number_of_services,      \* the published service count
    location_name,           \* the board's location name
    NRCC_message,            \* the sanitized, joined NRCC messages
    services_sequence,       \* Indices -> ServiceSequence
    services_basic,          \* Indices -> BasicServiceInfo
    services_additions,      \* Indices -> AdditionalServiceInfo
    services_callingpoints,  \* Indices -> CallingPointsInfo
    cached_trainIDs,         \* train id -> index, of the published snapshot
    ETDOrderedList,          \* Indices -> service index or Sentinel
    service_List,            \* 0..NumDepartures-1 -> service index or Sentinel
    selectPlatform,          \* a platform is selected
    selected_platform,       \* the selected platform
    ingest,                  \* an ingestion between its critical sections (or idle)
    last,                    \* the last call completed: its name, argument, outcome
    ingestions,              \* ingestion calls made so far
    calls,                   \* calls made since the last ingestion call
    derived,                 \* calling-point extractions since the last publication
    publications,            \* snapshots published so far
    seen,                    \* per train id: what hydration has extracted so far
    dataMutex,               \* dataMutex: "free" or the thread that holds it
    threads,                 \* per thread: the operation it runs and its position
    scan,                    \* a call of the in-place sanitizer: its argument, its
                             \* positions, and what the copying paths return
    decoder,                 \* the reason feeds loaded so far and the last decoding
    board                    \* the board: its flags, texts, loop and fetch threads

vars ==
    << refdata_loaded, reason_codes, delay_cancel_reasons, data, api_data_version,
       number_of_services, location_name, NRCC_message, services_sequence,
       services_basic, services_additions, services_callingpoints, cached_trainIDs,
       ETDOrderedList, service_List, selectPlatform, selected_platform,
       ingest, last, ingestions, calls, derived, publications, seen,
       dataMutex, threads, scan, decoder, board >>

\* The parser's members as one record, so that a method is a function of it.
Self ==
    [refdata_loaded |-> refdata_loaded, reason_codes |-> reason_codes,
     delay_cancel_reasons |-> delay_cancel_reasons, data |-> data,
     api_data_version |-> api_data_version,
     number_of_services |-> number_of_services, location_name |-> location_name,
     NRCC_message |-> NRCC_message, services_sequence |-> services_sequence,
     services_basic |-> services_basic, services_additions |-> services_additions,
     services_callingpoints |-> services_callingpoints,
     cached_trainIDs |-> cached_trainIDs, ETDOrderedList |-> ETDOrderedList,
     service_List |-> service_List, selectPlatform |-> selectPlatform,
     selected_platform |-> selected_platform]

\* The members after a method has run.
Members(s) ==
    /\ refdata_loaded' = s.refdata_loaded
    /\ reason_codes' = s.reason_codes
    /\ delay_cancel_reasons' = s.delay_cancel_reasons
    /\ data' = s.data
    /\ api_data_version' = s.api_data_version
    /\ number_of_services' = s.number_of_services
    /\ location_name' = s.location_name
    /\ NRCC_message' = s.NRCC_message
    /\ services_sequence' = s.services_sequence
    /\ services_basic' = s.services_basic
    /\ services_additions' = s.services_additions
    /\ services_callingpoints' = s.services_callingpoints
    /\ cached_trainIDs' = s.cached_trainIDs
    /\ ETDOrderedList' = s.ETDOrderedList
    /\ service_List' = s.service_List
    /\ selectPlatform' = s.selectPlatform
    /\ selected_platform' = s.selected_platform

\* The members after a method of the cache has run.
Becomes(s) ==
    /\ Members(s)
    /\ UNCHANGED << dataMutex, threads, scan, decoder, board >>

\* A value-initialized ServiceSequence (an element of a freshly sized vector).
NewServiceSequence ==
    [std_specified |-> FALSE, std |-> 0, etd_specified |-> FALSE, etd |-> 0,
     departure_time |-> 0, platform |-> "", trainid |-> "", api_version |-> 0]

\* A value-initialized BasicServiceInfo.
NewBasicServiceInfo ==
    [trainid |-> "", destination |-> "", scheduledDepartureTime |-> "",
     estimatedDepartureTime |-> "", operator_name |-> "", coaches |-> "",
     isCancelled |-> FALSE, isDelayed |-> FALSE, cancelReason |-> "",
     delayReason |-> "", adhocAlerts |-> "", apiDataVersion |-> 0,
     static_data_available |-> FALSE]

\* A value-initialized AdditionalServiceInfo (origin stands for the static subset:
\* origin, loading and the suppressed/passenger flags are extracted together).
NewAdditionalServiceInfo ==
    [trainid |-> "", apiDataVersion |-> 0, static_data_available |-> FALSE,
     origin |-> "", platformIsHidden |-> FALSE]

\* A value-initialized CallingPointsInfo.
NewCallingPointsInfo ==
    [trainid |-> "", apiDataVersion |-> 0, callingPointsCached |-> FALSE,
     callingPoints |-> << >>, callingPoints_with_ETD |-> << >>,
     PreviousCallingPoints |-> << >>, SubsequentCallingPoints |-> << >>,
     num_previous_calling_points |-> 0, num_subsequent_calling_points |-> 0,
     service_location_cached |-> FALSE, service_location |-> << >>]

\* The empty map.
EmptyMap == [k \in {} |-> 0]

\* std::unordered_map operator[] assignment: m[k] = v.
MapPut(m, k, v) == [x \in (DOMAIN m) \cup {k} |-> IF x = k THEN v ELSE m[x]]

\* ------------------------------------------------------------------------
\* Reason codes
\* ------------------------------------------------------------------------
RECURSIVE LoadReasonLoop(_, _, _, _)
\* The loop of loadReasonCodes: each record is stored at index reason_codes.size().
LoadReasonLoop(refdata, k, codes, reasons) ==
    IF k > Len(refdata) THEN [codes |-> codes, reasons |-> reasons]
    ELSE LET r == refdata[k]
             new_reason == [code |-> ToString(r.code),
                            delayReason |-> IF r.lateReason = "" THEN "No Reason" ELSE r.lateReason,
                            cancelReason |-> IF r.cancReason = "" THEN "No Reason" ELSE r.cancReason]
             new_index == Cardinality(DOMAIN codes)
         IN  LoadReasonLoop(refdata, k + 1, MapPut(codes, new_reason.code, new_index),
                            Append(reasons, new_reason))

loadReasonCodes(self, refdata) ==
    LET r == LoadReasonLoop(refdata, 1, self.reason_codes, << >>)
    IN  [self EXCEPT !.reason_codes = r.codes, !.delay_cancel_reasons = r.reasons,
                     !.refdata_loaded = TRUE]

\* An index past the end of delay_cancel_reasons is read.
OutOfBoundsRead == "<out of bounds>"

decodeDelayCode(self, delay_code) ==
    LET key == ToString(delay_code)
    IN  IF key \in DOMAIN self.reason_codes
        THEN IF self.reason_codes[key] < Len(self.delay_cancel_reasons)
             THEN self.delay_cancel_reasons[self.reason_codes[key] + 1].delayReason
             ELSE OutOfBoundsRead
        ELSE ""

decodeCancelCode(self, delay_code) ==
    LET key == ToString(delay_code)
    IN  IF key \in DOMAIN self.reason_codes
        THEN IF self.reason_codes[key] < Len(self.delay_cancel_reasons)
             THEN self.delay_cancel_reasons[self.reason_codes[key] + 1].cancelReason
             ELSE OutOfBoundsRead
        ELSE ""

\* ------------------------------------------------------------------------
\* JSON extractors
\* ------------------------------------------------------------------------

\* extractJSONTimeString: characters 11..15 of the ISO time, or the default.
extractJSONTimeString(t, default_value) ==
    IF t = NoTime THEN default_value ELSE t.hm

\* extractJSONTime: the time_t of the ISO time, or the default.
extractJSONTime(t, default_time) ==
    IF t = NoTime THEN default_time ELSE t.secs

\* std::time(nullptr) at the moment of an ingestion.
Now == T0900.secs - 60

\* data["trainServices"][idx] through the non-const operator[]: an index past the
\* end fills the array up with null values.
PadTo(doc, idx) ==
    IF idx < Len(doc.trainServices) THEN doc
    ELSE [doc EXCEPT !.trainServices =
              [k \in 1 .. (idx + 1) |->
                  IF k <= Len(doc.trainServices) THEN doc.trainServices[k] ELSE SvcNull]]

\* ------------------------------------------------------------------------
\* Ingestion: prefetchMetaData, prefetchCache, orderTheDepartureList
\* ------------------------------------------------------------------------
RECURSIVE CombineMessages(_, _, _)
\* The loop over nrccMessages: sanitized messages joined by " | ".
CombineMessages(msgs, k, combined) ==
    IF k > Len(msgs) THEN combined
    ELSE LET sep == IF k > 1 THEN << " ", "|", " " >> ELSE << >>
             clean == processHtmlTagsInPlace(msgs[k].xhtmlMessage)
             message == IF clean # << >> /\ clean[1] = "\n" THEN Tail(clean) ELSE clean
         IN  CombineMessages(msgs, k + 1,
                 IF msgs[k].has THEN combined \o sep \o message ELSE combined \o sep)

\* A prefetchMetaData that stops counting one service short of the maximum.
prefetchMetaDataShort(self, new_data) ==
    [self EXCEPT
        !.number_of_services = Min(Len(new_data.trainServices), MaxServices - 1),
        !.location_name =
            IF self.location_name = "" THEN new_data.locationName ELSE self.location_name,
        !.NRCC_message =
            IF new_data.nrccMessages # << >>
            THEN CombineMessages(new_data.nrccMessages, 1, << >>)
            ELSE << >>]

prefetchMetaData(self, new_data) ==
    [self EXCEPT
        !.number_of_services = Min(Len(new_data.trainServices), MaxServices),
        !.location_name =
            IF self.location_name = "" THEN new_data.locationName ELSE self.location_name,
        !.NRCC_message =
            IF new_data.nrccMessages # << >>
            THEN CombineMessages(new_data.nrccMessages, 1, << >>)
            ELSE << >>]

\* A ServiceSequence whose departure time is the scheduled time whatever the estimate.
SequenceOfScheduled(svc, api_version) ==
    IF svc.stdSpecified
    THEN LET std == extractJSONTime(svc.std, Now)
             etd == extractJSONTime(svc.etd, Now)
         IN  [std_specified |-> TRUE, std |-> std,
              etd_specified |-> svc.etdSpecified,
              etd |-> IF svc.etdSpecified THEN etd ELSE 0,
              departure_time |-> std,
              platform |-> svc.platform, trainid |-> svc.trainid,
              api_version |-> api_version]
    ELSE [std_specified |-> FALSE, std |-> INVALID_TIME, etd_specified |-> FALSE,
          etd |-> INVALID_TIME, departure_time |-> INVALID_TIME,
          platform |-> svc.platform, trainid |-> svc.trainid,
          api_version |-> api_version]

\* The ServiceSequence of service i of the new document.
SequenceOf(svc, api_version) ==
    IF svc.stdSpecified
    THEN LET std == extractJSONTime(svc.std, Now)
             etd == extractJSONTime(svc.etd, Now)
         IN  [std_specified |-> TRUE, std |-> std,
              etd_specified |-> svc.etdSpecified,
              etd |-> IF svc.etdSpecified THEN etd ELSE 0,
              departure_time |-> IF svc.etdSpecified THEN etd ELSE std,
              platform |-> svc.platform, trainid |-> svc.trainid,
              api_version |-> api_version]
    ELSE [std_specified |-> FALSE, std |-> INVALID_TIME, etd_specified |-> FALSE,
          etd |-> INVALID_TIME, departure_time |-> INVALID_TIME,
          platform |-> svc.platform, trainid |-> svc.trainid,
          api_version |-> api_version]

\* The index under which the identity map records service i of the new snapshot.
NewTrainIDIndex(new_cached_trainIDs, i) == Cardinality(DOMAIN new_cached_trainIDs)

RECURSIVE BuildTrainIDs(_, _, _, _)
\* new_cached_trainIDs after the services i..n-1 have been added.
BuildTrainIDs(seq, n, i, new_cached_trainIDs) ==
    IF i >= n THEN new_cached_trainIDs
    ELSE BuildTrainIDs(seq, n, i + 1,
             MapPut(new_cached_trainIDs, seq[i].trainid,
                    NewTrainIDIndex(new_cached_trainIDs, i)))

\* A carry that keeps the cached flags of the CallingPoints record.
CarryCallingPointsKept(cp) == cp

\* The calling-point record carried to a new index: both cached flags are cleared.
CarryCallingPoints(cp) ==
    [cp EXCEPT !.callingPointsCached = FALSE, !.service_location_cached = FALSE]

\* The fresh buffers prefetchCache builds for the new document (the loop body):
\* a service whose train id is in cached_trainIDs takes the tier records stored at
\* the mapped index, any other starts from value-initialized records.
PrefetchBuild(self, new_data, api_version) ==
    LET n == self.number_of_services
        seq == [i \in Indices |->
                   IF i < n THEN SequenceOf(new_data.trainServices[i + 1], api_version)
                   ELSE NewServiceSequence]
        cached(i) == seq[i].trainid \in DOMAIN self.cached_trainIDs
        extract(i) == self.cached_trainIDs[seq[i].trainid]
    IN  [data |-> new_data,
         api_version |-> api_version,
         services_sequence |-> seq,
         services_basic |->
             [i \in Indices |->
                 IF i >= n THEN NewBasicServiceInfo
                 ELSE IF cached(i) THEN self.services_basic[extract(i)]
                 ELSE [NewBasicServiceInfo EXCEPT !.trainid = seq[i].trainid]],
         services_additions |->
             [i \in Indices |->
                 IF i >= n THEN NewAdditionalServiceInfo
                 ELSE IF cached(i) THEN self.services_additions[extract(i)]
                 ELSE [NewAdditionalServiceInfo EXCEPT !.trainid = seq[i].trainid]],
         services_callingpoints |->
             [i \in Indices |->
                 IF i >= n THEN NewCallingPointsInfo
                 ELSE IF cached(i)
                      THEN CarryCallingPoints(self.services_callingpoints[extract(i)])
                 ELSE [NewCallingPointsInfo EXCEPT !.trainid = seq[i].trainid]],
         cached_trainIDs |-> BuildTrainIDs(seq, n, 0, EmptyMap)]

\* The critical section of prefetchCache: the buffers are swapped in.
PrefetchPublish(self, new) ==
    [self EXCEPT !.data = new.data,
                 !.services_basic = new.services_basic,
                 !.services_additions = new.services_additions,
                 !.services_callingpoints = new.services_callingpoints,
                 !.services_sequence = new.services_sequence,
                 !.cached_trainIDs = new.cached_trainIDs,
                 !.api_data_version = new.api_version]

\* A comparison by time alone, blind to INVALID_TIME.
DepartsBeforeByTime(time_list, a, b) == time_list[a] < time_list[b]

\* The comparator of orderTheDepartureList: a goes before b.
DepartsBefore(time_list, a, b) ==
    IF time_list[a] = INVALID_TIME /\ time_list[b] = INVALID_TIME THEN a < b
    ELSE IF time_list[a] = INVALID_TIME THEN FALSE
    ELSE IF time_list[b] = INVALID_TIME THEN TRUE
    ELSE time_list[a] < time_list[b]

\* What std::sort may leave in the first n places: every arrangement of 0..n-1 in
\* which no element goes before one placed ahead of it (the order of elements the
\* comparator does not separate is unspecified).
SortOutcomes(time_list, n) ==
    {p \in [0 .. (n - 1) -> 0 .. (n - 1)] :
        /\ \A i, j \in 0 .. (n - 1) : i # j => p[i] # p[j]
        /\ \A i, j \in 0 .. (n - 1) : i < j => ~DepartsBefore(time_list, p[j], p[i])}

\* An ordering of the services of the selected platform alone.
orderTheDepartureListOfPlatform(self) ==
    LET n == self.number_of_services
        time_list == [i \in Indices |-> self.services_sequence[i].departure_time]
        kept(index) == \/ ~self.selectPlatform
                       \/ self.services_sequence[index].platform = self.selected_platform
    IN  {[self EXCEPT !.ETDOrderedList =
              [i \in Indices |-> IF i < n /\ kept(p[i]) THEN p[i] ELSE Sentinel]] :
          p \in SortOutcomes(time_list, n)}

\* orderTheDepartureList: the outcomes of filling and sorting ETDOrderedList.
orderTheDepartureList(self) ==
    LET n == self.number_of_services
        time_list == [i \in Indices |-> self.services_sequence[i].departure_time]
    IN  {[self EXCEPT !.ETDOrderedList =
              [i \in Indices |-> IF i < n THEN p[i] ELSE Sentinel]] :
          p \in SortOutcomes(time_list, n)}

\* An ingestion that leaves the selection as it finds it.
VoidServiceListKept(self) == self

\* std::fill(service_List, 999)
VoidServiceList(self) ==
    [self EXCEPT !.service_List = [k \in 0 .. (NumDepartures - 1) |-> Sentinel]]

\* The outcome of a call: the members afterwards, whether it returned normally,
\* what it returned or threw, and what it extracted from the raw JSON (a set of
\* <<what, train id, index>>).
Returned(self, ret, extracted) ==
    [self |-> self, ok |-> TRUE, ret |-> ret, extracted |-> extracted]

Thrown(self, what) ==
    [self |-> self, ok |-> FALSE, ret |-> what, extracted |-> {}]

\* A prefetchCache that reads a text that is not JSON as the null document.
prefetchCacheLenient(self, jsonString, api_version) ==
    IF ~self.refdata_loaded
    THEN {Thrown(self, "out_of_range: Reference Data not loaded")}
    ELSE LET new_data == jsonString.doc
             meta == prefetchMetaData(self, new_data)
             published == PrefetchPublish(meta, PrefetchBuild(meta, new_data, api_version))
         IN  {Returned(VoidServiceList(o), "void", {}) : o \in orderTheDepartureList(published)}

\* prefetchCache: the set of its outcomes.
prefetchCache(self, jsonString, api_version) ==
    IF ~self.refdata_loaded
    THEN {Thrown(self, "out_of_range: Reference Data not loaded")}
    ELSE IF ~jsonString.wellFormed
    THEN {Thrown(self, "runtime_error: Failed to parse JSON")}
    ELSE LET new_data == jsonString.doc
             meta == prefetchMetaData(self, new_data)
             published == PrefetchPublish(meta, PrefetchBuild(meta, new_data, api_version))
         IN  {Returned(VoidServiceList(o), "void", {}) : o \in orderTheDepartureList(published)}

\* ------------------------------------------------------------------------
\* Hydration of the Basic and Additional tiers
\* ------------------------------------------------------------------------

\* What the uninitialized scalar members of a local BasicServiceInfo may hold.
JunkBasic ==
    [apiDataVersion : Stamps, isCancelled : BOOLEAN, isDelayed : BOOLEAN]

\* What the uninitialized scalar members of a local AdditionalServiceInfo may hold.
JunkAdditional == [apiDataVersion : Stamps, platformIsHidden : BOOLEAN]

\* The static subset of the Basic tier, extracted from the raw service.
BasicStatic(item, svc) ==
    [item EXCEPT
        !.scheduledDepartureTime = extractJSONTimeString(svc.std, ""),
        !.destination = svc.destination,
        !.operator_name = svc.operator,
        !.coaches = IF svc.length # 0 THEN ToString(svc.length) ELSE "",
        !.static_data_available = TRUE]

\* The display string without the test of the departure type.
EstimatedDisplayOfEstimate(item, svc, etd_specified, isCancelled) ==
    IF etd_specified
    THEN LET etd == extractJSONTimeString(svc.etd, "")
         IN  IF etd = item.scheduledDepartureTime THEN "On Time" ELSE etd
    ELSE IF isCancelled THEN "Cancelled" ELSE "On Time"

\* The estimated-time display string of the dynamic subset.
EstimatedDisplay(item, svc, etd_specified, isCancelled) ==
    LET shown ==
            IF etd_specified
            THEN LET etd == extractJSONTimeString(svc.etd, "")
                 IN  IF etd = item.scheduledDepartureTime THEN "On Time" ELSE etd
            ELSE IF isCancelled THEN "Cancelled" ELSE "On Time"
    IN  IF svc.departureType = "Delayed" /\ ~etd_specified THEN "Delayed" ELSE shown

\* A dynamic subset of the Basic tier that is left without its version stamp.
BasicDynamicUnstamped(self, item, svc, etd_specified) ==
    [item EXCEPT
        !.isCancelled = svc.isCancelled,
        !.cancelReason = decodeCancelCode(self, svc.cancelReason),
        !.delayReason = decodeDelayCode(self, svc.delayReason),
        !.adhocAlerts = svc.adhocAlerts,
        !.estimatedDepartureTime =
            EstimatedDisplay(item, svc, etd_specified, svc.isCancelled),
        !.isDelayed = (svc.departureType = "Delayed")]

\* The dynamic subset of the Basic tier, extracted from the raw service.
BasicDynamic(self, item, svc, etd_specified) ==
    [item EXCEPT
        !.isCancelled = svc.isCancelled,
        !.cancelReason = decodeCancelCode(self, svc.cancelReason),
        !.delayReason = decodeDelayCode(self, svc.delayReason),
        !.adhocAlerts = svc.adhocAlerts,
        !.estimatedDepartureTime =
            EstimatedDisplay(item, svc, etd_specified, svc.isCancelled),
        !.isDelayed = (svc.departureType = "Delayed"),
        !.apiDataVersion = self.api_data_version]

\* The check that opens every hydration: the train id of the raw service at the
\* index against the train id of the sequence entry at the index.
ExpectedService(self, service_index) ==
    PadTo(self.data, service_index).trainServices[service_index + 1].trainid
        = self.services_sequence[service_index].trainid

\* The Basic record is re-used when its static subset is cached.
BasicStaticCached(self, service_index) ==
    self.services_basic[service_index].static_data_available

\* The dynamic subset is recomputed when the stamp disagrees with the version.
DynamicStale(item, api_version) == item.apiDataVersion # api_version

\* hydrateBasicDataCacheInternal: the set of its outcomes (one per value the
\* uninitialized members of the local record may hold).
hydrateBasicDataCacheInternal(self, service_index) ==
    LET padded == [self EXCEPT !.data = PadTo(self.data, service_index)]
        svc == padded.data.trainServices[service_index + 1]
        ID == self.services_sequence[service_index].trainid
    IN  IF ~ExpectedService(self, service_index)
        THEN {Thrown(padded, "out_of_range: Unexpected Service ID")}
        ELSE IF service_index >= MaxServices
        THEN {Thrown(padded, "out_of_range: Service index exceeds maximum size")}
        ELSE IF service_index >= self.number_of_services
        THEN {Thrown(padded, "out_of_range: Service index exceeds current service count")}
        ELSE IF BasicStaticCached(self, service_index)
        THEN LET item == self.services_basic[service_index]
                 stale == DynamicStale(item, self.api_data_version)
                 new_basic_item ==
                     IF stale
                     THEN BasicDynamic(self, item, svc,
                              self.services_sequence[service_index].etd_specified)
                     ELSE item
             IN  {Returned([padded EXCEPT !.services_basic[service_index] = new_basic_item],
                           "void",
                           IF stale THEN {<< "basic.dynamic", ID, service_index >>} ELSE {})}
        ELSE {LET local == [NewBasicServiceInfo EXCEPT
                               !.trainid = svc.trainid,
                               !.apiDataVersion = junk.apiDataVersion,
                               !.isCancelled = junk.isCancelled,
                               !.isDelayed = junk.isDelayed]
                  item == BasicStatic(local, svc)
                  stale == DynamicStale(item, self.api_data_version)
                  new_basic_item ==
                      IF stale
                      THEN BasicDynamic(self, item, svc,
                               self.services_sequence[service_index].etd_specified)
                      ELSE item
              IN  Returned([padded EXCEPT
                                !.services_additions[service_index].static_data_available = FALSE,
                                !.services_basic[service_index] = new_basic_item],
                           "void",
                           {<< "basic.static", ID, service_index >>} \cup
                               (IF stale THEN {<< "basic.dynamic", ID, service_index >>} ELSE {}))
              : junk \in JunkBasic}

\* The static subset of the Additional tier, extracted from the raw service.
AdditionalStatic(item, svc) ==
    [item EXCEPT !.static_data_available = TRUE, !.origin = svc.origin]

\* The dynamic subset of the Additional tier, extracted from the raw service.
AdditionalDynamic(self, item, svc) ==
    [item EXCEPT !.platformIsHidden = svc.platformIsHidden,
                 !.apiDataVersion = self.api_data_version]

\* The Additional record is re-used when its static subset is cached.
AdditionalStaticCached(self, service_index) ==
    self.services_additions[service_index].static_data_available

\* hydrateAdditionalDataCacheInternal: the set of its outcomes.
hydrateAdditionalDataCacheInternal(self, service_index) ==
    LET padded == [self EXCEPT !.data = PadTo(self.data, service_index)]
        svc == padded.data.trainServices[service_index + 1]
        ID == self.services_sequence[service_index].trainid
    IN  IF ~ExpectedService(self, service_index)
        THEN {Thrown(padded, "out_of_range: Unexpected Service ID")}
        ELSE IF service_index >= MaxServices
        THEN {Thrown(padded, "out_of_range: Service index exceeds maximum size")}
        ELSE IF service_index >= self.number_of_services
        THEN {Thrown(padded, "out_of_range: Service index exceeds current service count")}
        ELSE IF AdditionalStaticCached(self, service_index)
        THEN LET item == self.services_additions[service_index]
                 stale == DynamicStale(item, self.api_data_version)
                 new_additional_item ==
                     IF stale THEN AdditionalDynamic(self, item, svc) ELSE item
             IN  {Returned([padded EXCEPT
                                !.services_additions[service_index] = new_additional_item],
                           "void",
                           IF stale THEN {<< "additional.dynamic", ID, service_index >>} ELSE {})}
        ELSE {LET local == [NewAdditionalServiceInfo EXCEPT
                               !.trainid = svc.trainid,
                               !.apiDataVersion = junk.apiDataVersion,
                               !.platformIsHidden = junk.platformIsHidden]
                  item == AdditionalStatic(local, svc)
                  stale == DynamicStale(item, self.api_data_version)
                  new_additional_item ==
                      IF stale THEN AdditionalDynamic(self, item, svc) ELSE item
              IN  Returned([padded EXCEPT
                                !.services_additions[service_index] = new_additional_item],
                           "void",
                           {<< "additional.static", ID, service_index >>} \cup
                               (IF stale THEN {<< "additional.dynamic", ID, service_index >>} ELSE {}))
              : junk \in JunkAdditional}

\* ------------------------------------------------------------------------
\* Departure selection
\* ------------------------------------------------------------------------
RECURSIVE SelectForPlatform(_, _, _, _, _)
\* The platform loop of hydrateDepartureCache: service_List after it. Where the
\* ordering holds 999 the loop reads services_sequence[999], outside the vector:
\* matches is what that comparison of platforms yields, and 999 is written
\* whatever the "std" read there.
SelectForPlatform(self, i, serviceCount, list, matches) ==
    IF ~(i < self.number_of_services /\ serviceCount < NumDepartures) THEN list
    ELSE LET index == self.ETDOrderedList[i]
             onPlatform == IF index = Sentinel THEN matches
                           ELSE self.services_sequence[index].platform = self.selected_platform
         IN  IF onPlatform
             THEN SelectForPlatform(self, i + 1, serviceCount + 1,
                      [list EXCEPT ![serviceCount] =
                          IF index = Sentinel THEN Sentinel
                          ELSE IF self.services_sequence[index].std = INVALID_TIME
                          THEN Sentinel ELSE index],
                      matches)
             ELSE SelectForPlatform(self, i + 1, serviceCount, list, matches)

\* An all-platforms loop that writes nothing.
SelectAllPlatformsKept(self) == self.service_List

\* The all-platforms loop of hydrateDepartureCache: service_List after it.
SelectAllPlatforms(self) ==
    [k \in 0 .. (NumDepartures - 1) |->
        IF /\ k < self.number_of_services
           /\ self.ETDOrderedList[k] # Sentinel
           /\ self.services_sequence[self.ETDOrderedList[k]].std # INVALID_TIME
        THEN self.ETDOrderedList[k]
        ELSE self.service_List[k]]

RECURSIVE HydrateSelected(_, _, _)
\* The hydration loop of hydrateDepartureCache from position k on: a throw of
\* hydrateBasicDataCacheInternal ends the loop and leaves the call.
HydrateSelected(outcomes, k, extracted) ==
    IF k >= NumDepartures
    THEN {Returned(o.self, "void", o.extracted) : o \in outcomes}
    ELSE LET step(o) ==
                 IF o.self.service_List[k] = Sentinel THEN {o}
                 ELSE {[h EXCEPT !.extracted = o.extracted \cup h.extracted] :
                          h \in hydrateBasicDataCacheInternal(o.self, o.self.service_List[k])}
             after == UNION {step(o) : o \in outcomes}
         IN  {o \in after : ~o.ok} \cup HydrateSelected({o \in after : o.ok}, k + 1, extracted)

\* hydrateDepartureCache: the set of its outcomes.
hydrateDepartureCache(self) ==
    IF self.number_of_services = 0 THEN {Returned(self, "void", {})}
    ELSE LET selections ==
                 IF self.selectPlatform
                 THEN {SelectForPlatform(self, 0, 0, self.service_List, matches) :
                          matches \in BOOLEAN}
                 ELSE {SelectAllPlatforms(self)}
         IN  HydrateSelected({Returned([self EXCEPT !.service_List = list], "void", {}) :
                                 list \in selections}, 0, {})

\* updateCache: prefetchCache, then hydrateDepartureCache unless it threw.
updateCache(self, jsonString, version) ==
    UNION {IF p.ok THEN hydrateDepartureCache(p.self) ELSE {p} :
              p \in prefetchCache(self, jsonString, version)}

\* createFromJSON: the reason codes are loaded first when they are not yet.
createFromJSON(self, datajsonString, reasonJsonString, version) ==
    updateCache(IF self.refdata_loaded THEN self ELSE loadReasonCodes(self, reasonJsonString),
                datajsonString, version)

setPlatform(self, platform) ==
    [self EXCEPT !.selected_platform = platform, !.selectPlatform = TRUE]

clearSelectedPlatform(self) == [self EXCEPT !.selectPlatform = FALSE]

\* ------------------------------------------------------------------------
\* Calling points and service location
\* ------------------------------------------------------------------------

\* A LocationInfo whose strings are empty (the local new_location before the loop).
NewLocationInfo ==
    [locationName |-> "", isPass |-> FALSE, isCancelled |-> FALSE,
     ArrivalTime |-> "", ArrivalType |-> "", DepartureTime |-> ""]

\* One turn of the extraction loop for a subsequent location: new_location is the
\* same object in every turn, so a time no branch assigns keeps its last value.
SubsequentLocation(new_location, cp) ==
    [new_location EXCEPT
        !.locationName = cp.locationName,
        !.isPass = cp.isPass,
        !.isCancelled = cp.isCancelled,
        !.DepartureTime =
            IF cp.atd # NoTime THEN extractJSONTimeString(cp.atd, "")
            ELSE IF cp.etd # NoTime THEN extractJSONTimeString(cp.etd, "")
            ELSE IF cp.std # NoTime THEN extractJSONTimeString(cp.std, "")
            ELSE new_location.DepartureTime]

\* One turn of the extraction loop for a previous location.
PreviousLocation(new_location, cp) ==
    [new_location EXCEPT
        !.locationName = cp.locationName,
        !.isPass = cp.isPass,
        !.isCancelled = cp.isCancelled,
        !.ArrivalType = cp.arrivalType,
        !.ArrivalTime =
            IF cp.ata # NoTime THEN extractJSONTimeString(cp.ata, "")
            ELSE IF cp.eta # NoTime THEN extractJSONTimeString(cp.eta, "")
            ELSE IF cp.sta # NoTime THEN extractJSONTimeString(cp.sta, "")
            ELSE new_location.ArrivalTime]

RECURSIVE ExtractLoop(_, _, _, _, _)
\* The extraction loop: the list of LocationInfo built from callingPoints[k..].
ExtractLoop(callingPoints, subsequent, k, new_location, list) ==
    IF k > Len(callingPoints) THEN list
    ELSE LET loc == IF subsequent
                    THEN SubsequentLocation(new_location, callingPoints[k])
                    ELSE PreviousLocation(new_location, callingPoints[k])
         IN  ExtractLoop(callingPoints, subsequent, k + 1, loc, Append(list, loc))

\* ExtractCallingPoints: its outcome (subsequent or previous locations).
ExtractCallingPoints(self, service_index, subsequent) ==
    LET padded == [self EXCEPT !.data = PadTo(self.data, service_index)]
        svc == padded.data.trainServices[service_index + 1]
        ID == self.services_sequence[service_index].trainid
        callingPoints ==
            IF subsequent THEN svc.subsequentLocations ELSE svc.previousLocations
        list == ExtractLoop(callingPoints, subsequent, 1, NewLocationInfo, << >>)
    IN  IF ~ExpectedService(self, service_index)
        THEN Thrown(padded, "out_of_range: Unexpected TrainID")
        ELSE IF service_index >= self.number_of_services
        THEN Thrown(padded, "out_of_range: Service index out of range")
        ELSE IF subsequent
        THEN Returned([padded EXCEPT
                          !.services_callingpoints[service_index].num_subsequent_calling_points
                              = Len(callingPoints),
                          !.services_callingpoints[service_index].SubsequentCallingPoints = list],
                      "void", {<< "subsequent", ID, service_index >>})
        ELSE Returned([padded EXCEPT
                          !.services_callingpoints[service_index].num_previous_calling_points
                              = Len(callingPoints),
                          !.services_callingpoints[service_index].PreviousCallingPoints = list],
                      "void", {<< "previous", ID, service_index >>})

RECURSIVE JoinCallingPoints(_, _, _, _)
\* The string loop of getCallingPoints: the two strings, as tuples of tokens.
JoinCallingPoints(points, k, first, acc) ==
    IF k > Len(points) THEN acc
    ELSE IF points[k].isPass THEN JoinCallingPoints(points, k + 1, first, acc)
    ELSE LET location == points[k]
             result == (IF first THEN acc.result ELSE Append(acc.result, ", "))
                           \o << location.locationName >>
             sep == IF first THEN acc.result_with_etd ELSE Append(acc.result_with_etd, " ")
             result_with_etd ==
                 IF location.DepartureTime # ""
                 THEN sep \o << location.locationName, " (", location.DepartureTime, ")" >>
                 ELSE sep
         IN  JoinCallingPoints(points, k + 1, FALSE,
                 [result |-> result, result_with_etd |-> result_with_etd])

\* A cache of calling-point strings that is never served.
CallingPointsNeverFresh(cp, api_version) == FALSE

\* The calling-point strings are served from the cache.
CallingPointsFresh(cp, api_version) ==
    cp.callingPointsCached /\ cp.apiDataVersion = api_version

\* getCallingPoints: its outcome (show_ETD is TRUE for SHOWETD).
getCallingPoints(self, service_index, show_ETD) ==
    LET padded == [self EXCEPT !.data = PadTo(self.data, service_index)]
        cp == self.services_callingpoints[service_index]
    IN  IF ~ExpectedService(self, service_index)
        THEN Thrown(padded, "out_of_range: Unexpected TrainID")
        ELSE IF service_index >= self.number_of_services
        THEN Thrown(padded, "out_of_range: Service index out of range")
        ELSE IF CallingPointsFresh(cp, self.api_data_version)
        THEN Returned(padded,
                      IF show_ETD THEN cp.callingPoints_with_ETD ELSE cp.callingPoints, {})
        ELSE LET x == ExtractCallingPoints(padded, service_index, TRUE)
                 got == x.self.services_callingpoints[service_index]
                 strings == JoinCallingPoints(got.SubsequentCallingPoints, 1, TRUE,
                                [result |-> << >>, result_with_etd |-> << >>])
             IN  IF ~x.ok THEN x
                 ELSE Returned(
                          [x.self EXCEPT !.services_callingpoints[service_index] =
                              [got EXCEPT
                                  !.callingPoints = strings.result,
                                  !.callingPoints_with_ETD = strings.result_with_etd,
                                  !.callingPointsCached = TRUE,
                                  !.apiDataVersion = self.api_data_version,
                                  !.trainid = self.services_sequence[service_index].trainid]],
                          IF show_ETD THEN strings.result_with_etd ELSE strings.result,
                          x.extracted)

RECURSIVE FindStops(_, _, _, _)
\* The search loop of getServiceLocation over the previous calling points
\* (0-based positions; next_stop = 0 also means that none was found yet).
FindStops(points, i, current_stop, next_stop) ==
    IF i >= Len(points) THEN [current_stop |-> current_stop, next_stop |-> next_stop]
    ELSE IF ~points[i + 1].isPass /\ next_stop = 0
    THEN IF points[i + 1].ArrivalType # "Actual"
         THEN FindStops(points, i + 1, current_stop, i)
         ELSE FindStops(points, i + 1, i, next_stop)
    ELSE FindStops(points, i + 1, current_stop, next_stop)

\* The location string is served from the cache.
LocationFresh(cp, api_version) ==
    cp.service_location_cached /\ cp.apiDataVersion = api_version

\* The text of the location string.
LocationText(points, here) ==
    LET stops == FindStops(points, 0, 0, 0)
    IN  << "This service is between ", points[stops.current_stop + 1].locationName, " and ",
           IF stops.next_stop = 0 THEN here
           ELSE points[stops.next_stop + 1].locationName >>

\* getServiceLocation: its outcome.
getServiceLocation(self, service_index) ==
    IF service_index = Sentinel THEN Returned(self, << >>, {})
    ELSE IF service_index >= self.number_of_services
    THEN Thrown(self, "out_of_range: Service index out of range")
    ELSE LET padded == [self EXCEPT !.data = PadTo(self.data, service_index)]
             cp == self.services_callingpoints[service_index]
         IN  IF ~ExpectedService(self, service_index)
             THEN Thrown(padded, "out_of_range: Unexpected TrainID")
             ELSE IF LocationFresh(cp, self.api_data_version)
             THEN Returned(padded, cp.service_location, {})
             ELSE LET x == ExtractCallingPoints(padded, service_index, FALSE)
                      got == x.self.services_callingpoints[service_index]
                      text == LocationText(got.PreviousCallingPoints, self.location_name)
                  IN  IF ~x.ok THEN x
                      ELSE IF got.num_previous_calling_points = 0
                      THEN Returned(x.self, << >>, x.extracted)
                      ELSE Returned(
                               [x.self EXCEPT !.services_callingpoints[service_index] =
                                   [got EXCEPT !.service_location = text,
                                               !.service_location_cached = TRUE,
                                               !.apiDataVersion = self.api_data_version]],
                               text, x.extracted)

\* ------------------------------------------------------------------------
\* Accessors of the Basic and Additional tiers
\* ------------------------------------------------------------------------

\* null_basic_service once CreateNullServiceInfo has run.
NullBasicService ==
    [trainid |-> "9999", destination |-> "Nowhere", scheduledDepartureTime |-> "99:99",
     estimatedDepartureTime |-> "99:99", operator_name |-> "Nobody", coaches |-> "",
     isCancelled |-> FALSE, isDelayed |-> FALSE,
     cancelReason |-> "Null Service - Cancellation Reason",
     delayReason |-> "Null Service - Delay Reason", adhocAlerts |-> "",
     apiDataVersion |-> 0, static_data_available |-> TRUE]

\* null_additional_service once CreateNullServiceInfo has run.
NullAdditionalService ==
    [trainid |-> "9999", apiDataVersion |-> 0, static_data_available |-> TRUE,
     origin |-> "Nowhere", platformIsHidden |-> FALSE]

\* null_basic_service: CreateNullServiceInfo runs at the end of loadReasonCodes,
\* and before that the scalar members hold whatever the object was built on.
null_basic_service(self) ==
    IF self.refdata_loaded THEN {NullBasicService}
    ELSE {[NewBasicServiceInfo EXCEPT !.isCancelled = j.isCancelled,
                                      !.isDelayed = j.isDelayed,
                                      !.apiDataVersion = j.apiDataVersion,
                                      !.static_data_available = available] :
             j \in JunkBasic, available \in BOOLEAN}

null_additional_service(self) ==
    IF self.refdata_loaded THEN {NullAdditionalService}
    ELSE {[NewAdditionalServiceInfo EXCEPT !.platformIsHidden = j.platformIsHidden,
                                           !.apiDataVersion = j.apiDataVersion,
                                           !.static_data_available = available] :
             j \in JunkAdditional, available \in BOOLEAN}

\* getBasicServiceInfo hydrates before it returns the record.
BasicNeedsHydration(self, service_index) ==
    \/ self.services_basic[service_index].apiDataVersion # self.api_data_version
    \/ ~self.services_basic[service_index].static_data_available

\* getAdditionalServiceInfo hydrates before it returns the record.
AdditionalNeedsHydration(self, service_index) ==
    self.services_additions[service_index].apiDataVersion # self.api_data_version

\* getBasicServiceInfo: the set of its outcomes.
getBasicServiceInfo(self, service_index) ==
    IF service_index = Sentinel
    THEN {Returned(self, r, {}) : r \in null_basic_service(self)}
    ELSE IF service_index >= self.number_of_services
    THEN {Thrown(self, "out_of_range: Service index out of range")}
    ELSE IF BasicNeedsHydration(self, service_index)
    THEN {IF h.ok THEN Returned(h.self, h.self.services_basic[service_index], h.extracted)
          ELSE h : h \in hydrateBasicDataCacheInternal(self, service_index)}
    ELSE {Returned(self, self.services_basic[service_index], {})}

\* getAdditionalServiceInfo: the set of its outcomes.
getAdditionalServiceInfo(self, service_index) ==
    IF service_index = Sentinel
    THEN {Returned(self, r, {}) : r \in null_additional_service(self)}
    ELSE IF service_index >= self.number_of_services
    THEN {Thrown(self, "out_of_range: Service index out of range")}
    ELSE IF AdditionalNeedsHydration(self, service_index)
    THEN {IF h.ok THEN Returned(h.self, h.self.services_additions[service_index], h.extracted)
          ELSE h : h \in hydrateAdditionalDataCacheInternal(self, service_index)}
    ELSE {Returned(self, self.services_additions[service_index], {})}

\* ------------------------------------------------------------------------
\* The ordinal accessors
\* ------------------------------------------------------------------------

\* safe_at: the element at index, or default_val past the end of the container.
safe_at(container, index, default_val) ==
    IF index < Cardinality(DOMAIN container) THEN container[index] ELSE default_val

\* getOrdinalDeparture: the set of its outcomes. It takes no lock.
getOrdinalDeparture(self, service_number) ==
    IF service_number = 0 \/ service_number > NumDepartures
    THEN {Thrown(self, "out_of_range: Ordinal service number out of range")}
    ELSE IF service_number - 1 >= Cardinality(DOMAIN self.service_List)
    THEN {Thrown(self, "out_of_range: Service list index out of range")}
    ELSE {Returned(self, safe_at(self.service_List, service_number - 1, Sentinel), {})}

\* A first-place accessor that knows no selection.
getFirstDepartureOfNone(self) == {Returned(self, Sentinel, {})}

\* getFirstDeparture, getSecondDeparture and getThirdDeparture: their outcomes.
getFirstDeparture(self) == {Returned(self, safe_at(self.service_List, 0, Sentinel), {})}

getSecondDeparture(self) == {Returned(self, safe_at(self.service_List, 1, Sentinel), {})}

getThirdDeparture(self) == {Returned(self, safe_at(self.service_List, 2, Sentinel), {})}

\* ------------------------------------------------------------------------
\* The calls of one thread, each one step
\* ------------------------------------------------------------------------

\* The static subset of a Basic record.
BasicStaticOf(r) ==
    [scheduledDepartureTime |-> r.scheduledDepartureTime, destination |-> r.destination,
     operator_name |-> r.operator_name, coaches |-> r.coaches]

\* The static subset of an Additional record.
AdditionalStaticOf(r) == [origin |-> r.origin]

\* The train ids of the published snapshot.
SnapshotIDs(self) ==
    {self.services_sequence[i].trainid : i \in {k \in Indices : k < self.number_of_services}}

\* The train ids that one service of the published snapshot carries, and no other.
UniqueIDs(self) ==
    {t \in SnapshotIDs(self) :
        Cardinality({i \in Indices : /\ i < self.number_of_services
                                     /\ self.services_sequence[i].trainid = t}) = 1}

\* seen after a call with outcome o: a train id that a newly published snapshot
\* does not carry exactly once is forgotten, and the first static extraction for
\* a train id the snapshot carries once is kept with the values it computed.
SeenAfter(o, published) ==
    LET kept == IF published THEN {e \in seen : e[2] \in UniqueIDs(o.self)} ELSE seen
        known(kind, id) == \E e \in kept : e[1] = kind /\ e[2] = id
        value(x) ==
            IF x[1] = "basic.static" THEN BasicStaticOf(o.self.services_basic[x[3]])
            ELSE AdditionalStaticOf(o.self.services_additions[x[3]])
    IN  kept \cup {<< x[1], x[2], value(x) >> :
                     x \in {y \in o.extracted :
                               /\ y[1] \in {"basic.static", "additional.static"}
                               /\ y[2] \in UniqueIDs(o.self)
                               /\ ~known(y[1], y[2])}}

\* derived after a call with outcome o: a publication empties it, an extraction
\* of calling points adds <<direction, index>>.
DerivedAfter(o, published) ==
    (IF published THEN {} ELSE derived) \cup
        {<< x[1], x[3] >> : x \in {y \in o.extracted : y[1] \in {"subsequent", "previous"}}}

\* No updateCache is in progress.
Idle == [pc |-> "idle"]

\* No call has completed yet.
NoCall ==
    [op |-> "none", index |-> 0, version |-> 0, mode |-> FALSE, wellFormed |-> TRUE,
     ok |-> TRUE, what |-> "", basic |-> NewBasicServiceInfo,
     additional |-> NewAdditionalServiceInfo, text |-> << >>, extracted |-> {},
     again |-> FALSE, departure |-> Sentinel,
     before |-> [k \in 0 .. (NumDepartures - 1) |-> Sentinel], prev |-> "none"]

\* The accessors that answer a place of the selection.
OrdinalOps ==
    {"getOrdinalDeparture", "getFirstDeparture", "getSecondDeparture", "getThirdDeparture"}

\* The record of a call that ended with outcome o: what it threw, or the Basic
\* record, the Additional record, the text or the selection entry it returned,
\* whether it repeats the call before it, for an ingestion and for
\* hydrateDepartureCache the selection it found, and for hydrateDepartureCache
\* the call before it.
Ended(call, o) ==
    [call EXCEPT
        !.ok = o.ok,
        !.what = IF o.ok THEN "" ELSE o.ret,
        !.basic = IF o.ok /\ call.op = "getBasicServiceInfo" THEN o.ret
                  ELSE NewBasicServiceInfo,
        !.additional = IF o.ok /\ call.op = "getAdditionalServiceInfo" THEN o.ret
                       ELSE NewAdditionalServiceInfo,
        !.text = IF o.ok /\ call.op \in {"getCallingPoints", "getServiceLocation"}
                 THEN o.ret ELSE << >>,
        !.extracted = o.extracted,
        !.again = /\ last.op = call.op
                  /\ last.index = call.index
                  /\ last.mode = call.mode
                  /\ call.op \notin {"createFromJSON", "updateCache", "prefetchCache"},
        !.departure = IF o.ok /\ call.op \in OrdinalOps THEN o.ret ELSE Sentinel,
        !.before = IF /\ call.op \in {"createFromJSON", "updateCache", "prefetchCache",
                                      "hydrateDepartureCache"}
                      /\ ingest.pc = "idle"
                   THEN service_List ELSE call.before,
        !.prev = IF call.op = "hydrateDepartureCache" THEN last.op ELSE "none"]

\* What is recorded of a call that completes with outcome o.
Recorded(call, o, published) ==
    /\ last' = Ended(call, o)
    /\ seen' = SeenAfter(o, published)
    /\ derived' = DerivedAfter(o, published)
    /\ publications' = IF published THEN publications + 1 ELSE publications
    /\ UNCHANGED ingest

\* A call completes with outcome o.
Completes(call, o, published) ==
    /\ Becomes(o.self)
    /\ Recorded(call, o, published)

\* The call is an ingestion, within the bound on ingestions.
AsIngestion ==
    /\ ingest.pc = "idle"
    /\ ingestions < MaxIngestions
    /\ ingestions' = ingestions + 1
    /\ calls' = 0

\* The call is not an ingestion: it follows the first ingestion call (the board
\* builds the parser with createFromJSON), within the bound on calls.
AsCall ==
    /\ ingestions > 0
    /\ calls < MaxCalls
    /\ calls' = calls + 1
    /\ UNCHANGED ingestions

\* The call chooses or clears the platform: the board chooses it before the
\* first ingestion too.
AsChoice ==
    /\ ingest.pc = "idle"
    /\ calls < MaxCalls
    /\ calls' = calls + 1
    /\ UNCHANGED ingestions

\* An ingestion call publishes a snapshot.
Publishes(self, jsonString) == self.refdata_loaded /\ jsonString.wellFormed

Platforms == {"1", "2"}

\* The service indices asked for.
Requests == 0 .. MaxIndex

\* ------------------------------------------------------------------------
\* dataMutex: which accesses of the members each operation makes with the lock
\* held. An operation is the sequence of its steps: taking the lock (the
\* construction of a lock_guard), releasing it (the end of the guard's scope),
\* or accessing members (those read, those written).
\* ------------------------------------------------------------------------
Threads == {"ingesting", "querying"}

Resting == [op |-> "none", pc |-> 1]

LockGuard == [kind |-> "lock", reads |-> {}, writes |-> {}]

EndOfScope == [kind |-> "unlock", reads |-> {}, writes |-> {}]

Accesses(reads, writes) == [kind |-> "access", reads |-> reads, writes |-> writes]

\* The private wrapper hydrateBasicDataCache: it takes the lock itself.
hydrateBasicDataCacheSteps ==
    << LockGuard,
       Accesses({"services_sequence", "data", "number_of_services",
                 "services_basic", "api_data_version"},
                {"data", "services_basic", "services_additions"}),
       EndOfScope >>

\* hydrateBasicDataCacheInternal: no lock of its own.
hydrateBasicDataCacheInternalSteps ==
    << Accesses({"services_sequence", "data", "number_of_services",
                 "services_basic", "api_data_version"},
                {"data", "services_basic", "services_additions"}) >>

\* hydrateAdditionalDataCacheInternal: no lock of its own.
hydrateAdditionalDataCacheInternalSteps ==
    << Accesses({"services_sequence", "data", "number_of_services",
                 "services_additions", "api_data_version"},
                {"data", "services_additions"}) >>

\* ExtractCallingPoints: no lock of its own.
ExtractCallingPointsSteps ==
    << Accesses({"services_sequence", "data", "number_of_services"}, {"data"}) >>

\* prefetchCache: the metadata, the carry-over loop, the swap under the lock,
\* the ordering and the reset of the selection.
prefetchCacheSteps ==
    << Accesses({}, {"number_of_services", "location_name", "NRCC_message"}),
       Accesses({"number_of_services", "cached_trainIDs", "services_basic",
                 "services_additions", "services_callingpoints"}, {}),
       LockGuard,
       Accesses({}, {"data", "services_basic", "services_additions",
                     "services_callingpoints", "services_sequence",
                     "cached_trainIDs", "api_data_version"}),
       EndOfScope,
       Accesses({"number_of_services", "services_sequence"}, {"ETDOrderedList"}),
       Accesses({}, {"service_List"}) >>

hydrateDepartureCacheSteps ==
    << LockGuard,
       Accesses({"number_of_services", "selectPlatform", "selected_platform",
                 "ETDOrderedList", "services_sequence"}, {"service_List"}) >>
    \o hydrateBasicDataCacheInternalSteps
    \o << EndOfScope >>

updateCacheSteps == prefetchCacheSteps \o hydrateDepartureCacheSteps

\* createFromJSON: the reason codes on the first call, then as updateCache.
createFromJSONSteps ==
    << Accesses({"refdata_loaded"},
                {"refdata_loaded", "reason_codes", "delay_cancel_reasons"}) >>
    \o updateCacheSteps

getBasicServiceInfoSteps ==
    << LockGuard,
       Accesses({"number_of_services", "services_basic", "api_data_version"}, {}) >>
    \o hydrateBasicDataCacheInternalSteps
    \o << Accesses({"services_basic"}, {}), EndOfScope >>

getAdditionalServiceInfoSteps ==
    << LockGuard,
       Accesses({"number_of_services", "services_additions", "api_data_version"}, {}) >>
    \o hydrateAdditionalDataCacheInternalSteps
    \o << Accesses({"services_additions"}, {}), EndOfScope >>

getCallingPointsSteps ==
    << LockGuard,
       Accesses({"services_callingpoints", "services_sequence", "data",
                 "number_of_services", "api_data_version"}, {"data"}) >>
    \o ExtractCallingPointsSteps
    \o << Accesses({"api_data_version"}, {"services_callingpoints"}), EndOfScope >>

getServiceLocationSteps ==
    << LockGuard,
       Accesses({"services_callingpoints", "services_sequence", "data",
                 "number_of_services", "api_data_version"}, {"data"}) >>
    \o ExtractCallingPointsSteps
    \o << Accesses({"api_data_version"}, {"services_callingpoints"}), EndOfScope >>

\* The operations a thread may call, each with its steps.
Operations ==
    [ingesting |->
        [createFromJSON |-> createFromJSONSteps,
         updateCache |-> updateCacheSteps,
         prefetchCache |-> prefetchCacheSteps,
         hydrateDepartureCache |-> hydrateDepartureCacheSteps],
     querying |->
        [getBasicServiceInfo |-> getBasicServiceInfoSteps,
         getAdditionalServiceInfo |-> getAdditionalServiceInfoSteps,
         getCallingPoints |-> getCallingPointsSteps,
         getServiceLocation |-> getServiceLocationSteps,
         getOrdinalDeparture |-> << Accesses({"service_List"}, {}) >>,
         getFirstDeparture |->
             << LockGuard, Accesses({"service_List"}, {}), EndOfScope >>,
         getSecondDeparture |->
             << LockGuard, Accesses({"service_List"}, {}), EndOfScope >>,
         getThirdDeparture |->
             << LockGuard, Accesses({"service_List"}, {}), EndOfScope >>,
         getPlatform |-> << Accesses({"services_sequence"}, {}) >>,
         getNumberOfServices |-> << Accesses({"number_of_services"}, {}) >>,
         getNrccMessages |-> << Accesses({"NRCC_message"}, {}) >>,
         getLocationName |-> << Accesses({"location_name"}, {}) >>,
         getCacheAPIVersion |-> << Accesses({"api_data_version"}, {}) >>,
         setPlatform |->
             << LockGuard, Accesses({}, {"selected_platform", "selectPlatform"}),
                EndOfScope >>,
         getSelectedPlatform |->
             << LockGuard, Accesses({"selectPlatform", "selected_platform"}, {}),
                EndOfScope >>,
         clearSelectedPlatform |->
             << LockGuard, Accesses({}, {"selectPlatform"}), EndOfScope >>]]

\* The steps of the operation a thread is running, and the step it is at.
StepsOf(t) ==
    IF threads[t].op = "none" THEN << >> ELSE Operations[t][threads[t].op]

Returning(t) == threads[t].op # "none" /\ threads[t].pc > Len(StepsOf(t))

StepAt(t) ==
    IF threads[t].op = "none" \/ Returning(t)
    THEN [kind |-> "none", reads |-> {}, writes |-> {}]
    ELSE StepsOf(t)[threads[t].pc]

\* ------------------------------------------------------------------------
\* The board: the loop of run(), the threads getDataFromAPI starts, and stop().
\* A text fetched from the API is written as the number of the fetch that
\* returned it (the value fetchDepartures gave departure_data_version); 0 is the
\* empty string.
\* ------------------------------------------------------------------------

\* The background fetches started.
MaxFetches == 2

\* A thread that getDataFromAPI has just started.
NewFetcher == [pc |-> "started", no |-> 0]

\* The board when run() enters its loop: initialiseAPI has fetched text 1 and
\* run() has ingested it.
BoardStarted ==
    [is_running |-> TRUE, shutdown_requested |-> FALSE,
     data_refresh_pending |-> FALSE, data_refresh_completed |-> FALSE,
     elapsed |-> FALSE, departure_data_version |-> 1,
     raw_api_data |-> 0, new_api_data |-> 0, departures |-> 1, api_data_version |-> 1,
     loop |-> "while", stopping |-> 0, fetchers |-> << >>,
     ingested |-> {<< 1, 1 >>}, completed_no |-> 0]

Init ==
    /\ refdata_loaded = FALSE
    /\ reason_codes = EmptyMap
    /\ delay_cancel_reasons = << >>
    /\ data = NullDoc
    /\ api_data_version = 0
    /\ number_of_services \in 0 .. MaxServices
    /\ location_name = ""
    /\ NRCC_message = << >>
    /\ services_sequence = [i \in Indices |-> NewServiceSequence]
    /\ services_basic = [i \in Indices |-> NewBasicServiceInfo]
    /\ services_additions = [i \in Indices |-> NewAdditionalServiceInfo]
    /\ services_callingpoints = [i \in Indices |-> NewCallingPointsInfo]
    /\ cached_trainIDs = EmptyMap
    /\ ETDOrderedList = [i \in Indices |-> Sentinel]
    /\ service_List = [k \in 0 .. (NumDepartures - 1) |-> Sentinel]
    /\ selectPlatform = FALSE
    /\ selected_platform = ""
    /\ ingest = Idle
    /\ last = NoCall
    /\ ingestions = 0
    /\ calls = 0
    /\ derived = {}
    /\ publications = 0
    /\ seen = {}
    /\ dataMutex = "free"
    /\ threads = [t \in Threads |-> Resting]
    /\ scan = NoScan
    /\ decoder = [fed |-> << >>, asked |-> FALSE, code |-> 0,
                  delayReason |-> "", cancelReason |-> ""]
    /\ board = BoardStarted

LoadReasonCodes ==
    /\ AsCall
    /\ ~refdata_loaded
    /\ Completes([NoCall EXCEPT !.op = "loadReasonCodes"],
                 Returned(loadReasonCodes(Self, ReasonFeed), "void", {}), FALSE)

\* createFromJSON with one of the documents.
CreateFromJSONOf(documents) ==
    /\ AsIngestion
    /\ ~refdata_loaded
    /\ \E jsonString \in documents, version \in Versions :
          \E o \in createFromJSON(Self, jsonString, ReasonFeed, version) :
              Completes([NoCall EXCEPT !.op = "createFromJSON", !.version = version,
                                       !.wellFormed = jsonString.wellFormed],
                        o, jsonString.wellFormed)

CreateFromJSON == CreateFromJSONOf(Payloads)

CreateFromFeed == CreateFromJSONOf(Feeds)

\* updateCache with one of the documents.
UpdateCacheOf(documents) ==
    /\ AsIngestion
    /\ \E jsonString \in documents, version \in Versions :
          \E o \in updateCache(Self, jsonString, version) :
              Completes([NoCall EXCEPT !.op = "updateCache", !.version = version,
                                       !.wellFormed = jsonString.wellFormed],
                        o, Publishes(Self, jsonString))

UpdateCache == UpdateCacheOf(Payloads)

UpdateFromFeed == UpdateCacheOf(Feeds)

PrefetchCache ==
    /\ AsIngestion
    /\ \E jsonString \in Payloads, version \in Versions :
          \E o \in prefetchCache(Self, jsonString, version) :
              Completes([NoCall EXCEPT !.op = "prefetchCache", !.version = version,
                                       !.wellFormed = jsonString.wellFormed],
                        o, Publishes(Self, jsonString))

HydrateDepartureCache ==
    /\ AsCall
    /\ \E o \in hydrateDepartureCache(Self) :
          Completes([NoCall EXCEPT !.op = "hydrateDepartureCache"], o, FALSE)

\* getBasicServiceInfo of one of the indices.
GetBasicServiceInfoOf(indices) ==
    /\ AsCall
    /\ \E service_index \in indices :
          \E o \in getBasicServiceInfo(Self, service_index) :
              Completes([NoCall EXCEPT !.op = "getBasicServiceInfo", !.index = service_index],
                        o, FALSE)

GetBasicServiceInfo == GetBasicServiceInfoOf(Requests)

\* The board shows a place of the selection that holds no departure.
GetBasicServiceInfoOfNone == GetBasicServiceInfoOf({Sentinel})

\* getAdditionalServiceInfo of one of the indices.
GetAdditionalServiceInfoOf(indices) ==
    /\ AsCall
    /\ \E service_index \in indices :
          \E o \in getAdditionalServiceInfo(Self, service_index) :
              Completes([NoCall EXCEPT !.op = "getAdditionalServiceInfo",
                                       !.index = service_index],
                        o, FALSE)

GetAdditionalServiceInfo == GetAdditionalServiceInfoOf(Requests)

GetAdditionalServiceInfoOfNone == GetAdditionalServiceInfoOf({Sentinel})

\* The ordinals asked for: none, the configured places, and places beyond them.
Ordinals == 0 .. (NumDepartures + 2)

GetOrdinalDeparture ==
    /\ AsCall
    /\ \E service_number \in Ordinals :
          \E o \in getOrdinalDeparture(Self, service_number) :
              Completes([NoCall EXCEPT !.op = "getOrdinalDeparture",
                                       !.index = service_number],
                        o, FALSE)

GetFirstDeparture ==
    /\ AsCall
    /\ \E o \in getFirstDeparture(Self) :
          Completes([NoCall EXCEPT !.op = "getFirstDeparture"], o, FALSE)

GetSecondDeparture ==
    /\ AsCall
    /\ \E o \in getSecondDeparture(Self) :
          Completes([NoCall EXCEPT !.op = "getSecondDeparture"], o, FALSE)

GetThirdDeparture ==
    /\ AsCall
    /\ \E o \in getThirdDeparture(Self) :
          Completes([NoCall EXCEPT !.op = "getThirdDeparture"], o, FALSE)

GetCallingPoints ==
    /\ AsCall
    /\ \E service_index \in Requests, show_ETD \in BOOLEAN :
          Completes([NoCall EXCEPT !.op = "getCallingPoints", !.index = service_index,
                                   !.mode = show_ETD],
                    getCallingPoints(Self, service_index, show_ETD), FALSE)

GetServiceLocation ==
    /\ AsCall
    /\ \E service_index \in Requests :
          Completes([NoCall EXCEPT !.op = "getServiceLocation", !.index = service_index],
                    getServiceLocation(Self, service_index), FALSE)

SetPlatform ==
    /\ AsChoice
    /\ \E platform \in Platforms :
          Completes([NoCall EXCEPT !.op = "setPlatform"],
                    Returned(setPlatform(Self, platform), "void", {}), FALSE)

ClearSelectedPlatform ==
    /\ AsChoice
    /\ Completes([NoCall EXCEPT !.op = "clearSelectedPlatform"],
                 Returned(clearSelectedPlatform(Self), "void", {}), FALSE)

\* ------------------------------------------------------------------------
\* updateCache step by step, beside a thread that reads
\* ------------------------------------------------------------------------
\* updateCache holds dataMutex twice: for the swap in prefetchCache and for
\* hydrateDepartureCache. Between its steps any other thread can take the lock.

\* prefetchCache up to the swap, without the lock: the text is parsed,
\* prefetchMetaData writes the count, the location name and the NRCC message, and
\* the fresh buffers are built.
BeginUpdateOf(documents) ==
    /\ AsIngestion
    /\ \E jsonString \in documents, version \in Versions :
          LET call == [NoCall EXCEPT !.op = "updateCache", !.version = version,
                                     !.wellFormed = jsonString.wellFormed,
                                     !.before = service_List]
          IN  IF ~refdata_loaded \/ ~jsonString.wellFormed
              THEN \E o \in prefetchCache(Self, jsonString, version) :
                       Completes(call, o, FALSE)
              ELSE LET meta == prefetchMetaData(Self, jsonString.doc)
                   IN  /\ Becomes(meta)
                       /\ ingest' = [pc |-> "built",
                                     new |-> PrefetchBuild(meta, jsonString.doc, version),
                                     call |-> call]
                       /\ last' = [call EXCEPT !.op = "prefetchMetaData"]
                       /\ UNCHANGED << seen, derived, publications >>

BeginUpdate == BeginUpdateOf(Payloads)

BeginUpdateFromFeed == BeginUpdateOf(Feeds)

\* The critical section of prefetchCache.
PublishUpdate ==
    /\ ingest.pc = "built"
    /\ LET o == Returned(PrefetchPublish(Self, ingest.new), "void", {})
       IN  /\ Becomes(o.self)
           /\ seen' = SeenAfter(o, TRUE)
           /\ derived' = DerivedAfter(o, TRUE)
    /\ publications' = publications + 1
    /\ ingest' = [pc |-> "published", call |-> ingest.call]
    /\ last' = [ingest.call EXCEPT !.op = "prefetchCache.swap"]
    /\ UNCHANGED << ingestions, calls >>

\* The end of prefetchCache, without the lock: the ordering and the voided
\* selection.
OrderUpdate ==
    /\ ingest.pc = "published"
    /\ \E o \in orderTheDepartureList(Self) : Becomes(VoidServiceList(o))
    /\ ingest' = [pc |-> "ordered", call |-> ingest.call]
    /\ last' = [ingest.call EXCEPT !.op = "orderTheDepartureList"]
    /\ UNCHANGED << ingestions, calls, seen, derived, publications >>

\* hydrateDepartureCache, under the lock: updateCache returns.
HydrateUpdate ==
    /\ ingest.pc = "ordered"
    /\ \E o \in hydrateDepartureCache(Self) :
          /\ Becomes(o.self)
          /\ last' = Ended(ingest.call, o)
          /\ seen' = SeenAfter(o, FALSE)
          /\ derived' = DerivedAfter(o, FALSE)
    /\ ingest' = Idle
    /\ UNCHANGED << ingestions, calls, publications >>

\* One thread runs updateCache, another reads the Basic tier.
NextConc ==
    \/ CreateFromJSON
    \/ BeginUpdate
    \/ PublishUpdate
    \/ OrderUpdate
    \/ HydrateUpdate
    \/ GetBasicServiceInfo

SpecConc == Init /\ [][NextConc]_vars

\* The board's thread: it ingests and reads the Basic and Additional tiers.
Next ==
    \/ CreateFromJSON
    \/ UpdateCache
    \/ PrefetchCache
    \/ GetBasicServiceInfo
    \/ GetAdditionalServiceInfo

Spec == Init /\ [][Next]_vars

\* The board's thread: it ingests and reads the CallingPoints tier.
NextPoints ==
    \/ CreateFromJSON
    \/ UpdateCache
    \/ GetCallingPoints
    \/ GetServiceLocation

SpecPoints == Init /\ [][NextPoints]_vars

\* The board's thread: it ingests, chooses a platform and reads the selection.
NextSel ==
    \/ CreateFromFeed
    \/ UpdateFromFeed
    \/ HydrateDepartureCache
    \/ SetPlatform
    \/ ClearSelectedPlatform
    \/ GetOrdinalDeparture
    \/ GetFirstDeparture
    \/ GetSecondDeparture
    \/ GetThirdDeparture
    \/ GetBasicServiceInfoOfNone
    \/ GetAdditionalServiceInfoOfNone

SpecSel == Init /\ [][NextSel]_vars

\* One thread runs updateCache, another reads the selection.
NextSelConc ==
    \/ CreateFromFeed
    \/ BeginUpdateFromFeed
    \/ PublishUpdate
    \/ OrderUpdate
    \/ HydrateUpdate
    \/ GetOrdinalDeparture

SpecSelConc == Init /\ [][NextSelConc]_vars

\* ------------------------------------------------------------------------
\* Properties of ingestion
\* ------------------------------------------------------------------------

\* The calls that ingest a document.
IngestionOps == {"createFromJSON", "updateCache", "prefetchCache"}

\* The published state: raw data, sequence, the three tiers, identity map,
\* ordering, selection, service count and version.
PublishedState ==
    << data, services_sequence, services_basic, services_additions,
       services_callingpoints, cached_trainIDs, ETDOrderedList, service_List,
       number_of_services, api_data_version >>

\* A snapshot has been published.
SnapshotPublished == publications > 0

\* C1: an ingestion whose version is less than or equal to the published version
\* is rejected and leaves every piece of published state as it was.
C1_StaleVersionRejected ==
    [][(/\ SnapshotPublished
        /\ last'.op \in IngestionOps
        /\ last'.wellFormed
        /\ last'.version <= api_data_version)
       => (~last'.ok /\ PublishedState' = PublishedState)]_vars

\* C2: an ingestion of a text that is not JSON fails with an error and publishes
\* nothing: count, NRCC message, location name, sequence, tiers, identity map,
\* ordering, selection and version keep their values.
C2_MalformedPublishesNothing ==
    [][(last'.op \in IngestionOps /\ ~last'.wellFormed)
       => (/\ ~last'.ok
           /\ PublishedState' = PublishedState
           /\ NRCC_message' = NRCC_message
           /\ location_name' = location_name)]_vars

\* C2 happens: a text that is not JSON was handed to an ingestion after a
\* snapshot with services had been published, and the call failed.
C2_Witness ==
    /\ last.op \in IngestionOps
    /\ ~last.wellFormed
    /\ ~last.ok
    /\ refdata_loaded
    /\ number_of_services > 0
    /\ SnapshotPublished

\* The count is the count of the published raw document.
CountOfSnapshot == number_of_services = Min(Len(data.trainServices), MaxServices)

\* The sequence entries are those of the published raw document.
SequenceOfSnapshot ==
    \A i \in Indices :
        IF i < Min(Len(data.trainServices), MaxServices)
        THEN services_sequence[i] = SequenceOf(data.trainServices[i + 1], api_data_version)
        ELSE services_sequence[i] = NewServiceSequence

\* The tier records and the identity map are those of the sequence: a record per
\* service, a map entry per train id.
TiersOfSnapshot ==
    /\ \A i \in Indices :
          i >= number_of_services =>
              /\ services_basic[i] = NewBasicServiceInfo
              /\ services_additions[i] = NewAdditionalServiceInfo
              /\ services_callingpoints[i] = NewCallingPointsInfo
    /\ DOMAIN cached_trainIDs = SnapshotIDs(Self)

\* The ordering lists the services of the sequence, by departure time.
OrderingOfSnapshot ==
    /\ \A i \in Indices :
          IF i < number_of_services
          THEN ETDOrderedList[i] \in Indices /\ ETDOrderedList[i] < number_of_services
          ELSE ETDOrderedList[i] = Sentinel
    /\ \A i, j \in Indices :
          i < j /\ j < number_of_services =>
              /\ ETDOrderedList[i] # ETDOrderedList[j]
              /\ ~DepartsBefore([k \in Indices |-> services_sequence[k].departure_time],
                                ETDOrderedList[j], ETDOrderedList[i])

\* The selection holds services of the sequence.
SelectionOfSnapshot ==
    \A k \in 0 .. (NumDepartures - 1) :
        service_List[k] = Sentinel \/ service_List[k] < number_of_services

\* C3: whenever the lock is free, the count, the sequence, the tiers, the identity
\* map, the ordering, the selection and the version belong to one snapshot.
C3_OneSnapshot ==
    SnapshotPublished =>
        /\ CountOfSnapshot
        /\ SequenceOfSnapshot
        /\ TiersOfSnapshot
        /\ OrderingOfSnapshot
        /\ SelectionOfSnapshot

\* C4: after prefetchCache has published a snapshot, every service whose train id
\* was in the previous snapshot holds, at its new index, the Basic and Additional
\* records that were stored for that train id just before.
C4_MigrationByIdentifier ==
    [][(SnapshotPublished /\ last'.op = "prefetchCache" /\ last'.ok)
       => \A i \in Indices :
            (/\ i < number_of_services'
             /\ services_sequence'[i].trainid \in SnapshotIDs(Self))
            => \E j \in Indices :
                 /\ j < number_of_services
                 /\ services_sequence[j].trainid = services_sequence'[i].trainid
                 /\ services_basic'[i] = services_basic[j]
                 /\ services_additions'[i] = services_additions[j]]_vars

\* ------------------------------------------------------------------------
\* Properties of the Basic and Additional tiers
\* ------------------------------------------------------------------------

\* The record a call returned.
TierReturned(call) ==
    IF call.op = "getBasicServiceInfo" THEN call.basic ELSE call.additional

\* The tier record a call reads: of the Basic or of the Additional tier.
TierRecord(self, op, service_index) ==
    IF op = "getBasicServiceInfo" THEN self.services_basic[service_index]
    ELSE self.services_additions[service_index]

TierOps == {"getBasicServiceInfo", "getAdditionalServiceInfo"}

\* The step is a call of getBasicServiceInfo or getAdditionalServiceInfo for an
\* index below the service count of a published snapshot.
TierCall ==
    /\ SnapshotPublished
    /\ last'.op \in TierOps
    /\ last'.index < number_of_services

\* C5: getBasicServiceInfo(i) and getAdditionalServiceInfo(i) fail whenever the
\* train id of the tier record at i differs from the train id of the sequence
\* entry at i, and a record they return carries the train id of the sequence.
C5_TierIdentityChecked ==
    [][TierCall
       => /\ TierRecord(Self, last'.op, last'.index).trainid
                 # services_sequence[last'.index].trainid
             => ~last'.ok
          /\ last'.ok
             => TierReturned(last').trainid = services_sequence'[last'.index].trainid]_vars

\* The static extraction a call of the tier makes.
StaticKind(op) ==
    IF op = "getBasicServiceInfo" THEN "basic.static" ELSE "additional.static"

\* The static subset of the record a call returned.
StaticReturned(call) ==
    IF call.op = "getBasicServiceInfo" THEN BasicStaticOf(call.basic)
    ELSE AdditionalStaticOf(call.additional)

\* C6: while a train id stays in every snapshot (once in each), the static subset
\* of its Basic tier and of its Additional tier is extracted at most once, and
\* every later call for it returns the static values of that first extraction.
C6_StaticExtractedOnce ==
    [][/\ \A x \in last'.extracted :
            x[1] \in {"basic.static", "additional.static"}
                => ~\E e \in seen : e[1] = x[1] /\ e[2] = x[2]
       /\ (TierCall /\ last'.ok)
            => \A e \in seen' :
                 (/\ e[1] = StaticKind(last'.op)
                  /\ e[2] = services_sequence'[last'.index].trainid)
                 => StaticReturned(last') = e[3]]_vars

\* The dynamic subset of a Basic record.
BasicDynamicOf(r) ==
    [isCancelled |-> r.isCancelled, cancelReason |-> r.cancelReason,
     delayReason |-> r.delayReason, adhocAlerts |-> r.adhocAlerts,
     estimatedDepartureTime |-> r.estimatedDepartureTime, isDelayed |-> r.isDelayed]

\* The dynamic subset of an Additional record.
AdditionalDynamicOf(r) == [platformIsHidden |-> r.platformIsHidden]

\* The Basic record derived from the published raw service at the index alone.
DerivedBasic(self, service_index) ==
    LET svc == self.data.trainServices[service_index + 1]
    IN  BasicDynamic(self, BasicStatic(NewBasicServiceInfo, svc), svc,
                     self.services_sequence[service_index].etd_specified)

\* The Additional record derived from the published raw service at the index alone.
DerivedAdditional(self, service_index) ==
    LET svc == self.data.trainServices[service_index + 1]
    IN  AdditionalDynamic(self, AdditionalStatic(NewAdditionalServiceInfo, svc), svc)

\* C7: a record getBasicServiceInfo(i) or getAdditionalServiceInfo(i) returns for
\* an index below the service count has static_data_available true, carries the
\* published version as its stamp, and has the dynamic subset derived from the
\* published raw snapshot at i.
C7_ReturnedRecordFresh ==
    [][(TierCall /\ last'.ok)
       => /\ TierReturned(last').static_data_available
          /\ TierReturned(last').apiDataVersion = api_data_version'
          /\ IF last'.op = "getBasicServiceInfo"
             THEN BasicDynamicOf(last'.basic)
                      = BasicDynamicOf(DerivedBasic(Self', last'.index))
             ELSE AdditionalDynamicOf(last'.additional)
                      = AdditionalDynamicOf(DerivedAdditional(Self', last'.index))]_vars

\* C8: a call of getBasicServiceInfo(i) or getAdditionalServiceInfo(i) that
\* repeats the call before it ends as that one did, with the same record,
\* extracts nothing and leaves the parser's state as it was.
C8_HydrationIdempotent ==
    [][(last'.op \in TierOps /\ last'.again)
       => /\ last'.ok = last.ok
          /\ last'.what = last.what
          /\ last'.basic = last.basic
          /\ last'.additional = last.additional
          /\ last'.extracted = {}
          /\ Self' = Self]_vars

\* C8 happens: a record was returned for a service of a published snapshot by a
\* call that repeats the call before it.
C8_Witness ==
    /\ SnapshotPublished
    /\ last.op \in TierOps
    /\ last.again
    /\ last.ok
    /\ last.index < number_of_services
    /\ TierReturned(last).static_data_available

\* ------------------------------------------------------------------------
\* Properties of the CallingPoints tier
\* ------------------------------------------------------------------------

PointsOps == {"getCallingPoints", "getServiceLocation"}

\* The direction a call of the CallingPoints tier extracts.
DirectionOf(op) == IF op = "getCallingPoints" THEN "subsequent" ELSE "previous"

\* The two calling-point strings derived from the published raw service at the index.
PointsOfSnapshot(self, service_index) ==
    JoinCallingPoints(
        ExtractLoop(self.data.trainServices[service_index + 1].subsequentLocations,
                    TRUE, 1, NewLocationInfo, << >>),
        1, TRUE, [result |-> << >>, result_with_etd |-> << >>])

\* The location string derived from the published raw service at the index.
LocationOfSnapshot(self, service_index) ==
    LET points == ExtractLoop(self.data.trainServices[service_index + 1].previousLocations,
                              FALSE, 1, NewLocationInfo, << >>)
    IN  IF Len(points) = 0 THEN << >> ELSE LocationText(points, self.location_name)

\* The text a call of the CallingPoints tier answers from the published snapshot.
TextOfSnapshot(self, call) ==
    IF call.op = "getServiceLocation" THEN LocationOfSnapshot(self, call.index)
    ELSE IF call.mode THEN PointsOfSnapshot(self, call.index).result_with_etd
    ELSE PointsOfSnapshot(self, call.index).result

\* The step is a call of getCallingPoints or getServiceLocation that returned, for
\* an index below the service count of a published snapshot.
PointsCall ==
    /\ SnapshotPublished
    /\ last'.op \in PointsOps
    /\ last'.index < number_of_services
    /\ last'.ok

\* The call extracted the calling points of its direction at its index.
Extracted(call) ==
    \E x \in call.extracted : x[1] = DirectionOf(call.op) /\ x[3] = call.index

\* C9: an ingestion that publishes leaves the calling-point strings and the
\* location string of every service marked stale; the first getCallingPoints(i)
\* and the first getServiceLocation(i) after it extract from the published
\* snapshot, and every text such a call returns is the one derived from the
\* snapshot published at the time of the call.
C9_CallingPointsStaleAfterIngestion ==
    [][/\ (last'.op \in IngestionOps /\ last'.ok)
            => \A i \in Indices :
                 /\ ~services_callingpoints'[i].callingPointsCached
                 /\ ~services_callingpoints'[i].service_location_cached
       /\ PointsCall
            => /\ << DirectionOf(last'.op), last'.index >> \notin derived
                    => Extracted(last')
               /\ last'.text = TextOfSnapshot(Self', last')]_vars

\* C9 happens: after a second snapshot was published, the first call of the
\* CallingPoints tier extracted calling points and returned a text.
C9_Witness ==
    /\ publications >= 2
    /\ calls = 1
    /\ last.op \in PointsOps
    /\ last.ok
    /\ Extracted(last)
    /\ last.text # << >>

\* C10: a getCallingPoints(i, mode) that repeats the call before it returns the
\* same string; only the first getCallingPoints(i) after an ingestion extracts
\* the subsequent calling points, whatever the mode; and the stored strings with
\* and without times are both those of the published snapshot.
C10_CallingPointsCached ==
    [][(PointsCall /\ last'.op = "getCallingPoints")
       => /\ (last'.again /\ last.ok) => last'.text = last.text
          /\ << "subsequent", last'.index >> \in derived
                => /\ last'.extracted = {}
                   /\ services_callingpoints' = services_callingpoints
          /\ LET cp == services_callingpoints'[last'.index]
                 strings == PointsOfSnapshot(Self', last'.index)
             IN  /\ cp.callingPointsCached
                 /\ cp.apiDataVersion = api_data_version'
                 /\ cp.callingPoints = strings.result
                 /\ cp.callingPoints_with_ETD = strings.result_with_etd]_vars

\* C10 happens: after a second snapshot was published, a getCallingPoints for the
\* other mode followed one that had extracted, and was served a text from the cache.
C10_Witness ==
    /\ publications >= 2
    /\ calls = 2
    /\ last.op = "getCallingPoints"
    /\ last.ok
    /\ ~last.again
    /\ << "subsequent", last.index >> \in derived
    /\ last.extracted = {}
    /\ last.text # << >>

\* ------------------------------------------------------------------------
\* Properties of the ordering and of the selection
\* ------------------------------------------------------------------------

\* The places of the ordering that hold a service of the published snapshot.
Placed == {i \in Indices : i < number_of_services}

\* The effective departure time of the service at a place of the ordering.
TimeAt(i) == services_sequence[ETDOrderedList[i]].departure_time

\* C11: after a successful ingestion every service without a valid departure
\* time stands in the ordering after every service with one, and the services
\* without one stand in ascending order of their index.
C11_InvalidTimesLast ==
    SnapshotPublished =>
        /\ \A i \in Placed : ETDOrderedList[i] \in Indices
        /\ \A i, j \in Placed :
              (i < j /\ TimeAt(i) = INVALID_TIME)
                  => (TimeAt(j) = INVALID_TIME /\ ETDOrderedList[i] < ETDOrderedList[j])

\* C11 happens: an ingestion published a snapshot that lists two services
\* without a departure time before a service with one.
C11_Witness ==
    /\ last.op \in IngestionOps
    /\ last.ok
    /\ SnapshotPublished
    /\ number_of_services = 3
    /\ services_sequence[0].departure_time = INVALID_TIME
    /\ services_sequence[1].departure_time = INVALID_TIME
    /\ services_sequence[2].departure_time # INVALID_TIME

\* C12: the ordering is a stable sort by effective departure time: the services
\* with a valid time stand in non-decreasing order of time, and two of them with
\* the same time stand in the order of their indices in the feed.
C12_StableByTime ==
    SnapshotPublished =>
        \A i, j \in Placed :
            (i < j /\ TimeAt(i) # INVALID_TIME /\ TimeAt(j) # INVALID_TIME)
                => /\ TimeAt(i) <= TimeAt(j)
                   /\ TimeAt(i) = TimeAt(j) => ETDOrderedList[i] < ETDOrderedList[j]

\* The parser with no platform selected.
Unfiltered(self) == [self EXCEPT !.selectPlatform = FALSE, !.selected_platform = ""]

\* The first number_of_services places of the ordering hold every index below
\* the count once, and the places above hold the sentinel.
OrderingIsPermutation ==
    /\ \A i \in Placed : ETDOrderedList[i] \in Placed
    /\ \A i, j \in Placed : i # j => ETDOrderedList[i] # ETDOrderedList[j]
    /\ \A i \in Indices \ Placed : ETDOrderedList[i] = Sentinel

\* C13: after a successful ingestion of N services the first N entries of the
\* ordering are a permutation of 0..N-1 and the entries above are the sentinel;
\* the ordering is one that the ingestion gives with no platform selected, and
\* choosing or clearing a platform or hydrating the selection leaves it as it is.
C13_OrderingIsPermutation ==
    [][/\ (last'.op \in IngestionOps /\ last'.ok) =>
              /\ OrderingIsPermutation'
              /\ ETDOrderedList' \in
                    {o.ETDOrderedList : o \in orderTheDepartureList(Unfiltered(Self'))}
       /\ (last'.op \in {"setPlatform", "clearSelectedPlatform", "hydrateDepartureCache"}) =>
              ETDOrderedList' = ETDOrderedList]_vars

\* C13 happens: with a platform selected an ingestion published three services,
\* one of them on another platform.
C13_Witness ==
    /\ last.op \in IngestionOps
    /\ last.ok
    /\ selectPlatform
    /\ number_of_services = 3
    /\ \E i \in Placed : services_sequence[i].platform # selected_platform
    /\ OrderingIsPermutation

\* What a call answers when it returns.
Answers(outcomes) == {o.ret : o \in {r \in outcomes : r.ok}}

\* The indices that the ordinal accessors answer: every place of the selection
\* that does not hold the sentinel.
Offered ==
    (Answers(getFirstDeparture(Self)) \cup Answers(getSecondDeparture(Self))
        \cup Answers(getThirdDeparture(Self))
        \cup UNION {Answers(getOrdinalDeparture(Self, n)) : n \in Ordinals})
    \ {Sentinel}

\* C14: in every reachable state, with or without a selected platform, no index
\* that the ordinal accessors answer is the index of a service of the snapshot
\* whose scheduled departure time is not specified.
C14_NoArrivalOffered ==
    \A index \in Offered :
        ~(index < number_of_services /\ services_sequence[index].std = INVALID_TIME)

\* The calls that hydrate the selection.
SelectionOps == {"hydrateDepartureCache", "updateCache", "createFromJSON"}

\* C15: when a platform is selected and hydrateDepartureCache or updateCache has
\* hydrated the selection since, every index that the ordinal accessors answer
\* is that of a service on the selected platform.
C15_OnlySelectedPlatform ==
    [][(last'.op \in SelectionOps /\ last'.ok /\ selectPlatform')
       => \A index \in Offered' :
            /\ index < number_of_services'
            /\ services_sequence'[index].platform = selected_platform']_vars

\* The unfiltered view: place k holds the k-th entry of the ordering when that
\* entry is a service with a scheduled departure, and the sentinel otherwise.
UnfilteredView ==
    [k \in 0 .. (NumDepartures - 1) |->
        IF /\ k < number_of_services
           /\ ETDOrderedList[k] \in Indices
           /\ services_sequence[ETDOrderedList[k]].std # INVALID_TIME
        THEN ETDOrderedList[k]
        ELSE Sentinel]

NamedDeparture(self, n) ==
    IF n = 1 THEN getFirstDeparture(self)
    ELSE IF n = 2 THEN getSecondDeparture(self)
    ELSE getThirdDeparture(self)

\* Two calls end the same way: both throw, or both return the same value.
SameAnswer(a, b) ==
    \A x \in a, y \in b : x.ok = y.ok /\ (x.ok => x.ret = y.ret)

C18_OrdinalInRange ==
    \A n \in Ordinals :
        \A o \in getOrdinalDeparture(Self, n) :
            IF n = 0 \/ n > NumDepartures
            THEN ~o.ok /\ o.ret = "out_of_range: Ordinal service number out of range"
            ELSE o.ok /\ (o.ret = Sentinel \/ o.ret < number_of_services)

\* C19: after the ingestion of a snapshot with no service every place of the
\* selection holds the sentinel, whatever had been selected before: each
\* configured ordinal returns the sentinel, and so does each named accessor.
C19_EmptySnapshotSelectsNothing ==
    [][(last'.op \in IngestionOps /\ last'.ok /\ number_of_services' = 0)
       => /\ Offered' = {}
          /\ \A n \in 1 .. NumDepartures :
                \A o \in getOrdinalDeparture(Self', n) : o.ok /\ o.ret = Sentinel]_vars

\* C19 happens: an ingestion published a snapshot with no service while a
\* departure of the snapshot before was selected.
C19_Witness ==
    /\ last.op = "updateCache"
    /\ last.ok
    /\ number_of_services = 0
    /\ publications > 1
    /\ \E k \in 0 .. (NumDepartures - 1) : last.before[k] # Sentinel
    /\ \A k \in 0 .. (NumDepartures - 1) : service_List[k] = Sentinel

\* C20: in every reachable state getBasicServiceInfo(999) and
\* getAdditionalServiceInfo(999) return the fixed placeholder records (train id
\* "9999", destination or origin "Nowhere"), throw nothing and change nothing.
C20_SentinelPlaceholder ==
    /\ \A o \in getBasicServiceInfo(Self, Sentinel) :
          o.ok /\ o.ret = NullBasicService /\ o.self = Self
    /\ \A o \in getAdditionalServiceInfo(Self, Sentinel) :
          o.ok /\ o.ret = NullAdditionalService /\ o.self = Self

\* The placeholder was asked for before the reference data had been loaded, and
\* the record returned has no train id.
C20_BlankPlaceholder ==
    /\ last.op \in {"getBasicServiceInfo", "getAdditionalServiceInfo"}
    /\ last.index = Sentinel
    /\ last.ok
    /\ ~refdata_loaded
    /\ last.basic.trainid = ""
    /\ last.additional.trainid = ""

\* ------------------------------------------------------------------------
\* Properties of the per-index operations
\* ------------------------------------------------------------------------

\* C21: getBasicServiceInfo, getAdditionalServiceInfo, getCallingPoints and
\* getServiceLocation, called with an index that is not the sentinel and is not
\* below the service count, throw the out-of-range error and leave the published
\* state, the raw document included, as it was.
C21_IndexOutOfRangeRejected ==
    [][(/\ last'.op \in TierOps \cup PointsOps
        /\ last'.index # Sentinel
        /\ last'.index >= number_of_services)
       => (/\ ~last'.ok
           /\ last'.what = "out_of_range: Service index out of range"
           /\ PublishedState' = PublishedState)]_vars

\* The out-of-range call of getCallingPoints threw its error and yet the raw
\* document is longer than the snapshot that was published.
C21_RawDocumentPadded ==
    /\ last.op = "getCallingPoints"
    /\ ~last.ok
    /\ last.what = "out_of_range: Service index out of range"
    /\ SnapshotPublished
    /\ Len(data.trainServices) > number_of_services

\* ------------------------------------------------------------------------
\* Two threads calling the operations, step by step, around dataMutex
\* ------------------------------------------------------------------------
Proceeds(t) == threads' = [threads EXCEPT ![t].pc = @ + 1]

ParserKept ==
    UNCHANGED << refdata_loaded, reason_codes, delay_cancel_reasons, data,
                 api_data_version, number_of_services, location_name,
                 NRCC_message, services_sequence, services_basic,
                 services_additions, services_callingpoints, cached_trainIDs,
                 ETDOrderedList, service_List, selectPlatform, selected_platform,
                 ingest, last, ingestions, calls, derived, publications, seen >>

Call(t) ==
    /\ threads[t].op = "none"
    /\ \E op \in DOMAIN Operations[t] :
          threads' = [threads EXCEPT ![t] = [op |-> op, pc |-> 1]]
    /\ UNCHANGED dataMutex
    /\ ParserKept
    /\ UNCHANGED << scan, decoder, board >>

\* std::mutex::lock: blocks until the mutex is free, whoever holds it.
Acquire(t) ==
    /\ StepAt(t).kind = "lock"
    /\ dataMutex = "free"
    /\ dataMutex' = t
    /\ Proceeds(t)
    /\ ParserKept
    /\ UNCHANGED << scan, decoder, board >>

Release(t) ==
    /\ StepAt(t).kind = "unlock"
    /\ dataMutex' = "free"
    /\ Proceeds(t)
    /\ ParserKept
    /\ UNCHANGED << scan, decoder, board >>

Touch(t) ==
    /\ StepAt(t).kind = "access"
    /\ Proceeds(t)
    /\ UNCHANGED dataMutex
    /\ ParserKept
    /\ UNCHANGED << scan, decoder, board >>

Return(t) ==
    /\ Returning(t)
    /\ threads' = [threads EXCEPT ![t] = Resting]
    /\ UNCHANGED dataMutex
    /\ ParserKept
    /\ UNCHANGED << scan, decoder, board >>

Runs(t) == Acquire(t) \/ Release(t) \/ Touch(t) \/ Return(t)

NextLocks ==
    \E t \in Threads :
        \/ Call(t)
        \/ Acquire(t)
        \/ Release(t)
        \/ Touch(t)
        \/ Return(t)

\* A thread that can take its next step does take it.
SpecLocks ==
    /\ Init
    /\ [][NextLocks]_vars
    /\ \A t \in Threads : WF_vars(Runs(t))

\* C22: a step of a public operation that reads or writes members is taken
\* only by the thread that holds dataMutex, so that no step of one thread writes
\* what a step of the other reads or writes.
C22_AccessUnderLock ==
    \A t \in Threads :
        (StepAt(t).kind = "access" /\ StepAt(t).reads \cup StepAt(t).writes # {})
            => dataMutex = t

Conflict(a, b) ==
    /\ a.kind = "access"
    /\ b.kind = "access"
    /\ \/ a.writes \cap (b.reads \cup b.writes) # {}
       \/ b.writes \cap a.reads # {}

C22_UnlockedIngestionMeetsReader ==
    /\ Conflict(StepAt("ingesting"), StepAt("querying"))
    /\ threads["ingesting"].op = "updateCache"
    /\ threads["querying"].op = "getBasicServiceInfo"
    /\ dataMutex = "querying"

\* C23: a thread that holds dataMutex never comes to take it again, and
\* whoever holds it releases it.
C23_LockReleased ==
    /\ [](\A t \in Threads : ~(dataMutex = t /\ StepAt(t).kind = "lock"))
    /\ \A t \in Threads : (dataMutex = t) ~> (dataMutex # t)

C23_HelperUnderLock ==
    /\ threads["querying"].op = "getBasicServiceInfo"
    /\ threads["querying"].pc = 3
    /\ dataMutex = "querying"

\* ------------------------------------------------------------------------
\* The sanitizers applied to the texts: processHtmlTagsInPlace one turn of its
\* loop at a time, then the copying paths on the same argument
\* ------------------------------------------------------------------------
OthersKept == ParserKept /\ UNCHANGED << dataMutex, threads, decoder, board >>

\* processHtmlTagsInPlace is called: an empty argument returns at once.
BeginSanitize ==
    /\ scan.pc \in {"none", "compared"}
    /\ \E text \in Texts \cup {<< >>} :
          scan' = [NoScan EXCEPT !.pc = IF text = << >> THEN "done" ELSE "scanning",
                                 !.input = text, !.html = text]
    /\ OthersKept

\* One turn of the loop of processHtmlTagsInPlace.
SanitizeStep ==
    /\ scan.pc = "scanning"
    /\ scan.readPos < Len(scan.input)
    /\ LET c == scan.html[scan.readPos + 1]
           n == FirstEntity(scan.html, Len(scan.input), scan.readPos + 1)
           Skips == [scan EXCEPT !.readPos = @ + 1]
           Writes(ch, read) ==
               [scan EXCEPT !.html[scan.writePos + 1] = ch,
                            !.writePos = @ + 1,
                            !.readPos = @ + read]
       IN  scan' =
               IF c = "<" THEN [Skips EXCEPT !.inTag = TRUE]
               ELSE IF c = ">" THEN [Skips EXCEPT !.inTag = FALSE]
               ELSE IF scan.inTag THEN Skips
               ELSE IF c = "&"
                    THEN IF n # 0
                         THEN Writes(entities[n].replacement, Len(entities[n].entity))
                         ELSE Writes(c, 1)
               ELSE IF c # "\n" /\ c # "\r" THEN Writes(c, 1)
               ELSE Skips
    /\ OthersKept

\* The loop is over: html.resize(writePos).
EndSanitize ==
    /\ scan.pc = "scanning"
    /\ scan.readPos >= Len(scan.input)
    /\ scan' = [scan EXCEPT !.pc = "done", !.html = SubSeq(scan.html, 1, scan.writePos)]
    /\ OthersKept

\* The copying paths on the same argument.
SanitizeCopies ==
    /\ scan.pc = "done"
    /\ scan' = [scan EXCEPT !.pc = "compared",
                            !.regular = processHtmlTagsRegular(scan.input),
                            !.neon = processHtmlTagsNEON(scan.input),
                            !.selected = processHtmlTags(scan.input)]
    /\ OthersKept

NextHtml ==
    \/ BeginSanitize
    \/ SanitizeStep
    \/ EndSanitize
    \/ SanitizeCopies

SpecHtml == Init /\ [][NextHtml]_vars

\* C24: on every text the vectorized path returns what the scalar path returns,
\* and so does the path that processHtmlTags selects by length.
C24_NEONEqualsRegular ==
    scan.pc = "compared"
        => (scan.neon = scan.regular /\ scan.selected = scan.regular)

C24_SelectionChangesResult ==
    /\ scan.pc = "compared"
    /\ Len(scan.input) >= neon_threshold
    /\ scan.selected # scan.regular

\* The characters of a text.
Chars(text) == {text[k] : k \in 1 .. Len(text)}

\* C25: the scalar sanitizer maps the empty text to the empty text, lets no
\* newline or carriage return through, replaces each of the six entities by its
\* character, removes a tag, and removes the text a pair of tags encloses with
\* the tags: "A &amp; B <b>bold</b>\n" becomes "A & B ".
C25_SanitizeAsStated ==
    scan.pc = "compared"
        => /\ scan.input = << >> => scan.regular = << >>
           /\ Chars(scan.regular) \cap {"\n", "\r"} = {}
           /\ \A p \in Offsets, t \in Tails :
                 /\ \A n \in 1 .. Len(entities) :
                       scan.input = Fill(p, "x") \o entities[n].entity \o t
                           => scan.regular
                                  = Fill(p, "x") \o << entities[n].replacement >> \o t
                 /\ scan.input = Fill(p, "x") \o << "<", "b", ">" >> \o t
                       => scan.regular = Fill(p, "x") \o t
           /\ scan.input = Marked
                 => scan.regular = << "A", " ", "&", " ", "B", " " >>

C25_ElementTextKept ==
    /\ scan.pc = "compared"
    /\ scan.input = Marked
    /\ scan.regular = << "A", " ", "&", " ", "B", " ", "b", "o", "l", "d" >>

\* C26: processHtmlTagsInPlace leaves in its argument what the scalar copying
\* sanitizer returns for the same text, and while it scans it has written no
\* further than it has read.
C26_InPlaceRefinesRegular ==
    /\ scan.pc = "scanning" => scan.writePos <= scan.readPos
    /\ scan.pc = "compared"
          => /\ scan.html = scan.regular
             /\ scan.html = processHtmlTagsInPlace(scan.input)

C26_Witness ==
    /\ scan.pc = "compared"
    /\ scan.input = Marked
    /\ scan.html # scan.input
    /\ scan.writePos < scan.readPos

\* ------------------------------------------------------------------------
\* The reason-code table: loads, the first ingestion, and decoding
\* ------------------------------------------------------------------------
MaxLoads == 2

Reason7 == ReasonFeed[1]

Reason9 == [code |-> 9, lateReason |-> "late: fog", cancReason |-> "cancelled: fog"]

\* The feeds: in either order, with a record repeated, and with no record.
ReasonFeeds ==
    {ReasonFeed, << Reason7, Reason9 >>, << Reason9, Reason7 >>,
     << Reason7, Reason7, Reason9 >>, << >>}

\* The codes asked for: those of the feeds and one that no feed has.
ReasonCodes == {7, 9, 11}

\* loadReasonCodes with one of the feeds, whether or not one is loaded already.
LoadReasonCodesOf(feeds) ==
    /\ Len(decoder.fed) < MaxLoads
    /\ \E reasonJsonString \in feeds :
          /\ Members(loadReasonCodes(Self, reasonJsonString))
          /\ decoder' = [decoder EXCEPT !.fed = Append(@, reasonJsonString),
                                        !.asked = FALSE]
    /\ last' = [NoCall EXCEPT !.op = "loadReasonCodes"]
    /\ UNCHANGED << ingest, ingestions, calls, derived, publications, seen,
                    dataMutex, threads, scan, board >>

LoadReasonFeed == LoadReasonCodesOf(ReasonFeeds)

\* createFromJSON with one of the feeds and a document: the feed is loaded when
\* none has been.
CreateFromJSONWithReasons ==
    /\ AsIngestion
    /\ \E jsonString \in Payloads, reasonJsonString \in ReasonFeeds :
          \E o \in createFromJSON(Self, jsonString, reasonJsonString, 1) :
              /\ Members(o.self)
              /\ Recorded([NoCall EXCEPT !.op = "createFromJSON", !.version = 1,
                                         !.wellFormed = jsonString.wellFormed],
                          o, jsonString.wellFormed)
              /\ decoder' = [decoder EXCEPT
                                !.fed = IF refdata_loaded THEN @
                                        ELSE Append(@, reasonJsonString),
                                !.asked = FALSE]
    /\ UNCHANGED << dataMutex, threads, scan, board >>

\* Hydration decodes a code of a service.
DecodeReasonCodes ==
    /\ refdata_loaded
    /\ \E code \in ReasonCodes :
          decoder' = [decoder EXCEPT !.asked = TRUE, !.code = code,
                                     !.delayReason = decodeDelayCode(Self, code),
                                     !.cancelReason = decodeCancelCode(Self, code)]
    /\ ParserKept
    /\ UNCHANGED << dataMutex, threads, scan, board >>

NextReasons ==
    \/ LoadReasonFeed
    \/ CreateFromJSONWithReasons
    \/ DecodeReasonCodes

SpecReasons == Init /\ [][NextReasons]_vars

\* The records of a feed that carry a code.
RecordsOf(feed, code) == {k \in 1 .. Len(feed) : feed[k].code = code}

\* C27: once a feed is loaded, decoding a code gives the late and the
\* cancellation text of every record of the feed with that code, and the empty
\* text for a code the feed does not have.
C27_DecodeReturnsFeedText ==
    (decoder.asked /\ Len(decoder.fed) = 1)
        => LET feed == decoder.fed[1]
           IN  /\ \A k \in RecordsOf(feed, decoder.code) :
                     /\ decoder.delayReason = feed[k].lateReason
                     /\ decoder.cancelReason = feed[k].cancReason
               /\ RecordsOf(feed, decoder.code) = {}
                     => (decoder.delayReason = "" /\ decoder.cancelReason = "")

C27_RepeatedRecordShiftsText ==
    /\ decoder.asked
    /\ decoder.fed = << << Reason7, Reason7, Reason9 >> >>
    /\ decoder.code = 9
    /\ decoder.delayReason = Reason7.lateReason

\* The table as the first load leaves it.
FirstLoaded ==
    loadReasonCodes([refdata_loaded |-> FALSE, reason_codes |-> EmptyMap,
                     delay_cancel_reasons |-> << >>], decoder.fed[1])

\* C28: after the first load every code decodes as the first load made it
\* decode, whatever is called, and every stored index is within the stored list.
C28_ReasonsImmutable ==
    Len(decoder.fed) >= 1
        => /\ \A code \in ReasonCodes :
                 /\ decodeDelayCode(Self, code) = decodeDelayCode(FirstLoaded, code)
                 /\ decodeCancelCode(Self, code) = decodeCancelCode(FirstLoaded, code)
           /\ \A key \in DOMAIN reason_codes :
                 reason_codes[key] < Len(delay_cancel_reasons)

C28_IndexPastEnd ==
    /\ decoder.fed = << ReasonFeed, ReasonFeed >>
    /\ reason_codes["7"] >= Len(delay_cancel_reasons)

\* ------------------------------------------------------------------------
\* The estimated-time display of the Basic tier
\* ------------------------------------------------------------------------

\* Service E: its estimate is its scheduled time.
SvcE ==
    [SvcNull EXCEPT !.trainid = "E", !.stdSpecified = TRUE, !.std = T1000,
                    !.etdSpecified = TRUE, !.etd = T1000, !.platform = "1",
                    !.destination = "Ely", !.operator = "GA"]

\* Service D: marked "Delayed", with no estimate; in a later poll with one.
SvcD1 ==
    [SvcNull EXCEPT !.trainid = "D", !.stdSpecified = TRUE, !.std = T1000,
                    !.departureType = "Delayed", !.platform = "2",
                    !.destination = "Derby", !.operator = "XC"]

SvcD2 == [SvcD1 EXCEPT !.etdSpecified = TRUE, !.etd = T1007]

\* Service K: cancelled and marked "Delayed", with no estimate; it leaves last.
SvcK ==
    [SvcB1 EXCEPT !.trainid = "K", !.departureType = "Delayed", !.std = T1007]

Estimates ==
    {Text(Doc(d, "Didcot", << >>)) :
        d \in {f \in {<< SvcA1, SvcB1, SvcD1 >>, << SvcB1, SvcE, SvcD2 >>,
                      << SvcK, SvcD1 >>} : Len(f) <= MaxFeedLen}}

CreateFromEstimates == CreateFromJSONOf(Estimates)

UpdateFromEstimates == UpdateCacheOf(Estimates)

GetBasicServiceInfoOfAny == GetBasicServiceInfoOf(Indices)

NextDisplay ==
    \/ CreateFromEstimates
    \/ UpdateFromEstimates
    \/ GetBasicServiceInfoOfAny

SpecDisplay == Init /\ [][NextDisplay]_vars

\* getBasicServiceInfo returned a record whose dynamic subset it has just
\* computed from the raw service at the index.
DisplayComputed ==
    /\ last.op = "getBasicServiceInfo"
    /\ last.ok
    /\ \E e \in last.extracted : e[1] = "basic.dynamic" /\ e[3] = last.index

Stations == << "Slough", "Maidenhead", "Twyford" >>

ArrivalTypes == {"Actual", "Forecast"}

\* Every list of one to three previous calling points, none of them passed.
Journeys ==
    {Text(Doc(<< [SvcA1 EXCEPT !.trainid = "J", !.previousLocations =
                      [k \in 1 .. n |-> PrevLoc(Stations[k], FALSE, types[k])]] >>,
              "Didcot", << >>)) :
        n \in 1 .. Len(Stations), types \in [1 .. Len(Stations) -> ArrivalTypes]}

CreateFromJourneys == CreateFromJSONOf(Journeys)

UpdateFromJourneys == UpdateCacheOf(Journeys)

NextLocation ==
    \/ CreateFromJourneys
    \/ UpdateFromJourneys
    \/ GetServiceLocation

SpecLocation == Init /\ [][NextLocation]_vars

\* getServiceLocation has answered for a service with previous calling points.
Located ==
    /\ last.op = "getServiceLocation"
    /\ last.ok
    /\ last.index < number_of_services
    /\ Len(data.trainServices) > last.index
    /\ data.trainServices[last.index + 1].previousLocations # << >>

\* C30: the answer names the last previous calling point with the arrival type
\* "Actual" and the first point after it with another arrival type, or the
\* board's location when no point follows.
C30_LocationBetween ==
    Located
        => LET points == data.trainServices[last.index + 1].previousLocations
               actual == {k \in 1 .. Len(points) : points[k].arrivalType = "Actual"}
               X == CHOOSE k \in actual : \A m \in actual : m <= k
               after == {k \in (X + 1) .. Len(points) :
                            points[k].arrivalType # "Actual"}
               Y == CHOOSE k \in after : \A m \in after : k <= m
           IN  /\ actual # {}
               /\ last.text = << "This service is between ", points[X].locationName,
                                 " and ",
                                 IF after = {} THEN location_name
                                 ELSE points[Y].locationName >>

\* The train has been reported at the third point but not at the second.
C30_LaterActualIgnored ==
    /\ Located
    /\ LET points == data.trainServices[last.index + 1].previousLocations
       IN  /\ Len(points) = 3
           /\ points[1].arrivalType = "Actual"
           /\ points[2].arrivalType = "Forecast"
           /\ points[3].arrivalType = "Actual"
    /\ last.text = << "This service is between ", "Slough", " and ", "Maidenhead" >>

\* ------------------------------------------------------------------------
\* Properties of the cached service location
\* ------------------------------------------------------------------------

\* C31: a getServiceLocation(i) that repeats the call before it, with no
\* ingestion between them, returns the same string and extracts no previous
\* calling points, also when the service has none and the string is empty.
C31_LocationCached ==
    [][(/\ last'.op = "getServiceLocation"
        /\ last'.ok
        /\ last'.again
        /\ last.ok
        /\ last'.index < number_of_services')
       => (/\ last'.text = last.text
           /\ last'.extracted = {})]_vars

\* A service with no previous calling points is asked for twice: the second
\* call extracts again.
C31_EmptyLocationExtractedAgain ==
    /\ last.op = "getServiceLocation"
    /\ last.ok
    /\ last.again
    /\ last.index < number_of_services
    /\ last.text = << >>
    /\ last.extracted # {}
    /\ data.trainServices[last.index + 1].previousLocations = << >>

\* The same for the services that have previous calling points.
C31_LocationCachedWhereLocated ==
    [][(/\ last'.op = "getServiceLocation"
        /\ last'.ok
        /\ last'.again
        /\ last.ok
        /\ last'.index < number_of_services'
        /\ data'.trainServices[last'.index + 1].previousLocations # << >>)
       => (/\ last'.text = last.text
           /\ last'.extracted = {})]_vars

\* ------------------------------------------------------------------------
\* Properties of the calling-point strings
\* ------------------------------------------------------------------------

\* The best-available departure time of a subsequent location of the feed: the
\* actual time, else the estimated time, else the scheduled time, else none.
BestTime(cp) ==
    IF cp.atd # NoTime THEN cp.atd.hm
    ELSE IF cp.etd # NoTime THEN cp.etd.hm
    ELSE IF cp.std # NoTime THEN cp.std.hm
    ELSE ""

RECURSIVE Annotated(_, _, _, _)
\* The stops of the feed that are not passed, in feed order, each once: with
\* its own best-available time when times are asked for and it has one.
Annotated(cps, k, first, times) ==
    IF k > Len(cps) THEN << >>
    ELSE IF cps[k].isPass THEN Annotated(cps, k + 1, first, times)
    ELSE (IF first THEN << >> ELSE IF times THEN << " " >> ELSE << ", " >>)
         \o << cps[k].locationName >>
         \o (IF times /\ BestTime(cps[k]) # ""
             THEN << " (", BestTime(cps[k]), ")" >> ELSE << >>)
         \o Annotated(cps, k + 1, FALSE, times)

\* getCallingPoints has answered for a service of the snapshot.
PointsAnswered ==
    /\ last.op = "getCallingPoints"
    /\ last.ok
    /\ last.index < number_of_services
    /\ Len(data.trainServices) > last.index

\* C32: the string of getCallingPoints names every subsequent stop that is not
\* passed once, in feed order, and with times each stop carries its own
\* best-available time: no passed stop appears and no time of another stop.
C32_OwnBestTime ==
    PointsAnswered
        => last.text = Annotated(data.trainServices[last.index + 1].subsequentLocations,
                                 1, TRUE, last.mode)

\* The last stop has no time of its own and is shown with the time of the
\* first stop.
C32_TimeOfAnotherStop ==
    /\ PointsAnswered
    /\ last.mode
    /\ LET cps == data.trainServices[last.index + 1].subsequentLocations
           n == Len(last.text)
       IN  /\ Len(cps) = 3
           /\ BestTime(cps[3]) = ""
           /\ n >= 4
           /\ SubSeq(last.text, n - 3, n)
                  = << cps[3].locationName, " (", BestTime(cps[1]), ")" >>

\* ------------------------------------------------------------------------
\* Properties of the independence of the tiers
\* ------------------------------------------------------------------------

\* C33: a call that hydrates or reads the Basic tier leaves every record of
\* the Additional tier as it was, its static flag and its version stamp
\* included, and a call that hydrates the Additional tier leaves every record
\* of the Basic tier as it was.
C33_TiersIndependent ==
    [][/\ (last'.op \in {"getBasicServiceInfo", "hydrateDepartureCache"} /\ last'.ok)
            => services_additions' = services_additions
       /\ (last'.op = "getAdditionalServiceInfo" /\ last'.ok)
            => services_basic' = services_basic]_vars

\* The Additional record at the index had its static subset, and the read of
\* the Basic tier before this one took the flag away.
C33_AdditionalFlagCleared ==
    /\ last.op = "getBasicServiceInfo"
    /\ last.ok
    /\ last.index < number_of_services
    /\ << "basic.static", services_sequence[last.index].trainid, last.index >>
           \in last.extracted
    /\ ~services_additions[last.index].static_data_available
    /\ services_additions[last.index].apiDataVersion = api_data_version
    /\ services_additions[last.index].trainid = services_sequence[last.index].trainid
    /\ services_additions[last.index].trainid # ""

\* ------------------------------------------------------------------------
\* Ingestion of timetables: services with an estimate and no scheduled time, with
\* "stdSpecified" and no "std", with one train id twice, with no train id, and a
\* document of more services than the configured maximum.
\* ------------------------------------------------------------------------

\* Service X: an estimate and no scheduled time.
SvcX ==
    [SvcNull EXCEPT !.trainid = "X", !.etdSpecified = TRUE, !.etd = T1007,
                    !.platform = "1", !.destination = "Exeter", !.operator = "GWR"]

\* Service S: "stdSpecified" is set and "std" is absent.
SvcS ==
    [SvcNull EXCEPT !.trainid = "S", !.stdSpecified = TRUE, !.platform = "2",
                    !.destination = "Stroud", !.operator = "GWR"]

\* Service N: a departure with no "trainid"; M is another one.
SvcN ==
    [SvcNull EXCEPT !.stdSpecified = TRUE, !.std = T1030, !.platform = "1",
                    !.destination = "Newbury", !.operator = "GWR"]

SvcM == [SvcN EXCEPT !.std = T1037, !.platform = "2", !.destination = "Marlow"]

\* The train ids of the services of the long document.
LongIds == << "P", "Q", "R", "V", "W", "Y" >>

\* A document of one service more than the configured maximum.
LongFeed ==
    [k \in 1 .. (MaxServices + 1) |->
        [SvcA1 EXCEPT !.trainid = LongIds[k], !.etdSpecified = (k % 2 = 0),
                      !.etd = IF k % 2 = 0 THEN T1007 ELSE NoTime]]

Timetables ==
    {Text(Doc(d, "Didcot", << >>)) :
        d \in {<< SvcX, SvcA2, SvcA1 >>, << SvcS, SvcN, SvcM >>, LongFeed}}

CreateFromTimetable == CreateFromJSONOf(Timetables)

UpdateFromTimetable == UpdateCacheOf(Timetables)

NextTimetable ==
    \/ CreateFromTimetable
    \/ UpdateFromTimetable
    \/ GetBasicServiceInfo

SpecTimetable == Init /\ [][NextTimetable]_vars

\* The services of the published document that the sequence records.
RecordedServices == 0 .. (Min(number_of_services, Len(data.trainServices)) - 1)

Ingested ==
    /\ last.op \in {"createFromJSON", "updateCache"}
    /\ last.ok

\* C35: after every ingestion the published service count is at most the
\* configured maximum: a document of more services than the maximum is accepted
\* without error, its first max services are recorded, and the sequence, tier and
\* ordering vectors keep the maximum as their size, with no index at or beyond it.
C35_CountWithinMaximum ==
    /\ publications > 0 => number_of_services <= MaxServices
    /\ (last.op \in {"createFromJSON", "updateCache"} /\ refdata_loaded) => last.ok
    /\ DOMAIN services_sequence = Indices
    /\ DOMAIN services_basic = Indices
    /\ DOMAIN services_additions = Indices
    /\ DOMAIN services_callingpoints = Indices
    /\ DOMAIN ETDOrderedList = Indices
    /\ \A i \in Indices : ETDOrderedList[i] \in Indices \cup {Sentinel}
    /\ \A k \in DOMAIN service_List : service_List[k] \in Indices \cup {Sentinel}
    /\ Ingested =>
          /\ number_of_services = Min(Len(data.trainServices), MaxServices)
          /\ \A i \in 0 .. (number_of_services - 1) :
                /\ services_sequence[i] = SequenceOf(data.trainServices[i + 1], last.version)
                /\ \E k \in Indices : ETDOrderedList[k] = i
          /\ \A i \in Indices :
                i >= number_of_services =>
                    /\ services_sequence[i] = NewServiceSequence
                    /\ ETDOrderedList[i] = Sentinel

\* A document of more services than the maximum has been ingested.
C35_LongFeedIngested ==
    /\ Ingested
    /\ Len(data.trainServices) > MaxServices
    /\ number_of_services = MaxServices
    /\ services_sequence[MaxServices - 1].trainid = LongIds[MaxServices]

\* C38: in every state reached by successful ingestions and accessor calls, the
\* train id stored in the Basic, Additional and CallingPoints records at every
\* index below the service count is the train id of the sequence entry at that
\* index, also when a document repeats a train id or holds services with none.
C38_TierTrainIdsAgree ==
    publications > 0 =>
        \A i \in 0 .. (number_of_services - 1) :
            /\ services_basic[i].trainid = services_sequence[i].trainid
            /\ services_additions[i].trainid = services_sequence[i].trainid
            /\ services_callingpoints[i].trainid = services_sequence[i].trainid

\* An ingestion has carried the tier records of one train to the index of another.
C38_RecordsOfAnotherTrain ==
    /\ Ingested
    /\ number_of_services > 0
    /\ services_sequence[0].trainid = "B"
    /\ services_basic[0].trainid = "A"
    /\ services_additions[0].trainid = "A"
    /\ services_callingpoints[0].trainid = "A"

\* The tier records.
Tiers == << services_basic, services_additions, services_callingpoints >>

\* C39: an ingestion attempted before the reason codes are loaded fails with an
\* error before the text is parsed and leaves the members as they were;
\* createFromJSON loads the reason codes before it ingests, and no tier record is
\* written while the reason codes are not loaded.
C39_UnloadedIngestionRejected ==
    [][/\ (last'.op \in {"updateCache", "prefetchCache"} /\ ~refdata_loaded)
            => /\ ~last'.ok
               /\ last'.what = "out_of_range: Reference Data not loaded"
               /\ Self' = Self
       /\ (last'.op = "createFromJSON" /\ last'.ok) => refdata_loaded'
       /\ Tiers' # Tiers => refdata_loaded']_vars

\* The ingestions alone reject and load as stated.
C39_IngestionRejectedOrLoaded ==
    [][/\ (last'.op \in {"updateCache", "prefetchCache"} /\ ~refdata_loaded)
            => /\ ~last'.ok
               /\ last'.what = "out_of_range: Reference Data not loaded"
               /\ Self' = Self
       /\ (last'.op = "createFromJSON" /\ last'.ok) => refdata_loaded'
       /\ (last'.op \in {"createFromJSON", "updateCache", "prefetchCache"}
           /\ Tiers' # Tiers) => refdata_loaded']_vars

\* An accessor has hydrated a tier record of a parser whose reason codes were
\* never loaded.
C39_HydratedUnloaded ==
    /\ ~refdata_loaded
    /\ last.op \in {"getBasicServiceInfo", "getAdditionalServiceInfo"}
    /\ last.ok
    /\ last.extracted # {}

\* An ingestion of a text that is not JSON has been rejected for the reason codes.
C39_RejectedBeforeParse ==
    /\ ~refdata_loaded
    /\ last.op \in {"updateCache", "prefetchCache"}
    /\ ~last.wellFormed
    /\ last.what = "out_of_range: Reference Data not loaded"

\* ------------------------------------------------------------------------
\* The steps of the board
\* ------------------------------------------------------------------------

\* The stores of stop(), in program order with the flag that ends a pending refresh first.
StopStoresPendingFirst == << "data_refresh_pending", "is_running", "shutdown_requested" >>

\* The stores of stop(), in program order.
StopStores == << "is_running", "shutdown_requested", "data_refresh_pending" >>

\* A step of the board: the parser is not touched.
BoardStep(b) ==
    /\ board' = b
    /\ ParserKept
    /\ UNCHANGED << dataMutex, threads, scan, decoder >>

\* The fetch threads inside fetchDepartures.
InFlight == {t \in DOMAIN board.fetchers : board.fetchers[t].pc \in {"calling", "fetching"}}

\* while (is_running)
WhileRunning ==
    /\ board.loop = "while"
    /\ BoardStep([board EXCEPT !.loop = IF board.is_running THEN "due" ELSE "ended"])

\* The refresh interval has elapsed since last_data_refresh.
Elapse ==
    /\ ~board.elapsed
    /\ BoardStep([board EXCEPT !.elapsed = TRUE])

\* if (!data_refresh_pending.load() && now - last_data_refresh >= interval)
CheckRefresh ==
    /\ board.loop = "due"
    /\ BoardStep([board EXCEPT !.loop =
           IF /\ ~board.data_refresh_pending
              /\ board.elapsed
              /\ Len(board.fetchers) < MaxFetches
           THEN "getDataFromAPI" ELSE "poll"])

\* getDataFromAPI: nothing when a refresh is pending, otherwise the flag is set and
\* a thread is started and detached.
getDataFromAPI(b) ==
    IF b.data_refresh_pending THEN b
    ELSE [b EXCEPT !.data_refresh_pending = TRUE,
                   !.fetchers = Append(@, NewFetcher)]

\* getDataFromAPI(); last_data_refresh = now
GetDataFromAPI ==
    /\ board.loop = "getDataFromAPI"
    /\ BoardStep([getDataFromAPI(board) EXCEPT !.elapsed = FALSE, !.loop = "poll"])

\* if (data_refresh_completed.load()), else matrix.render() and the next turn.
PollCompleted ==
    /\ board.loop = "poll"
    /\ BoardStep([board EXCEPT !.loop =
           IF board.data_refresh_completed THEN "copy" ELSE "while"])

\* Under api_data_mutex: departures = new_api_data; api_data_version = getCurrentAPIVersion()
CopyNewData ==
    /\ board.loop = "copy"
    /\ BoardStep([board EXCEPT !.departures = board.new_api_data,
                               !.api_data_version = board.departure_data_version,
                               !.loop = "refreshData"])

\* refreshData() and updateDisplay(): parser.updateCache(departures, api_data_version)
\* returns, or an exception reaches the catch of the loop.
RefreshData ==
    /\ board.loop = "refreshData"
    /\ \E thrown \in BOOLEAN :
          BoardStep([board EXCEPT
              !.ingested = @ \cup {<< board.departures, board.api_data_version >>},
              !.loop = IF thrown THEN "sleep" ELSE "reset"])

\* data_refresh_completed.store(false); matrix.render()
ResetCompleted ==
    /\ board.loop = "reset"
    /\ BoardStep([board EXCEPT !.data_refresh_completed = FALSE, !.loop = "while"])

\* catch: sleep_for(data_refresh_interval)
SleepInterval ==
    /\ board.loop = "sleep"
    /\ BoardStep([board EXCEPT !.elapsed = TRUE, !.loop = "while"])

\* The thread starts: if (shutdown_requested.load()) return
FetchBegins ==
    \E t \in DOMAIN board.fetchers :
        /\ board.fetchers[t].pc = "started"
        /\ BoardStep([board EXCEPT !.fetchers[t].pc =
               IF board.shutdown_requested THEN "done" ELSE "calling"])

\* fetchDepartures: departure_data_version.fetch_add(1), then the API call.
FetchDepartures ==
    \E t \in DOMAIN board.fetchers :
        /\ board.fetchers[t].pc = "calling"
        /\ BoardStep([board EXCEPT
               !.departure_data_version = @ + 1,
               !.fetchers[t] = [pc |-> "fetching", no |-> board.departure_data_version + 1]])

\* raw_api_data = the text makeApiCall returned
FetchReturns ==
    \E t \in DOMAIN board.fetchers :
        /\ board.fetchers[t].pc = "fetching"
        /\ BoardStep([board EXCEPT !.raw_api_data = board.fetchers[t].no,
                                   !.fetchers[t].pc = "received"])

\* makeApiCall throws: catch, data_refresh_pending.store(false)
FetchThrows ==
    \E t \in DOMAIN board.fetchers :
        /\ board.fetchers[t].pc = "fetching"
        /\ BoardStep([board EXCEPT !.data_refresh_pending = FALSE,
                                   !.fetchers[t].pc = "done"])

\* if (shutdown_requested.load()) return; under api_data_mutex: new_api_data = raw_api_data
FetchStores ==
    \E t \in DOMAIN board.fetchers :
        /\ board.fetchers[t].pc = "received"
        /\ BoardStep(IF board.shutdown_requested
                     THEN [board EXCEPT !.fetchers[t].pc = "done"]
                     ELSE [board EXCEPT !.new_api_data = board.raw_api_data,
                                        !.fetchers[t].pc = "stored"])

\* data_refresh_completed.store(true)
FetchCompletes ==
    \E t \in DOMAIN board.fetchers :
        /\ board.fetchers[t].pc = "stored"
        /\ BoardStep([board EXCEPT !.data_refresh_completed = TRUE,
                                   !.completed_no = board.fetchers[t].no,
                                   !.fetchers[t].pc = "completed"])

\* data_refresh_pending.store(false)
FetchClears ==
    \E t \in DOMAIN board.fetchers :
        /\ board.fetchers[t].pc = "completed"
        /\ BoardStep([board EXCEPT !.data_refresh_pending = FALSE,
                                   !.fetchers[t].pc = "done"])

\* stop(), from the signal handler: its next store.
Stop ==
    /\ board.stopping < Len(StopStores)
    /\ LET flag == StopStores[board.stopping + 1]
       IN  BoardStep([board EXCEPT
               !.stopping = @ + 1,
               !.is_running = IF flag = "is_running" THEN FALSE ELSE @,
               !.shutdown_requested = IF flag = "shutdown_requested" THEN TRUE ELSE @,
               !.data_refresh_pending = IF flag = "data_refresh_pending" THEN FALSE ELSE @])

NextBoard ==
    \/ WhileRunning
    \/ Elapse
    \/ CheckRefresh
    \/ GetDataFromAPI
    \/ PollCompleted
    \/ CopyNewData
    \/ RefreshData
    \/ ResetCompleted
    \/ SleepInterval
    \/ FetchBegins
    \/ FetchDepartures
    \/ FetchReturns
    \/ FetchThrows
    \/ FetchStores
    \/ FetchCompletes
    \/ FetchClears
    \/ Stop

SpecBoard == Init /\ [][NextBoard]_vars

\* C36: the board never has more than one departure fetch in flight:
\* getDataFromAPI starts a thread only when no refresh is pending, at most one at
\* a time, a turn of the loop made while one is pending starts none, and this
\* holds for every interleaving of the loop, the fetch threads and stop().
C36_OneFetchInFlight ==
    [][/\ Cardinality(InFlight') <= 1
       /\ Len(board'.fetchers) > Len(board.fetchers)
            => /\ ~board.data_refresh_pending
               /\ board'.data_refresh_pending
               /\ Len(board'.fetchers) = Len(board.fetchers) + 1
       /\ (board.data_refresh_pending /\ board.loop \in {"due", "getDataFromAPI"})
            => Len(board'.fetchers) = Len(board.fetchers)]_vars

\* stop() has ended the pending refresh while a fetch was in flight, and the loop
\* has started another thread.
C36_Witness ==
    /\ Len(board.fetchers) = 2
    /\ board.fetchers[1].pc = "fetching"
    /\ board.fetchers[2].pc = "done"
    /\ board.shutdown_requested

\* C37: every text the loop passes to updateCache carries the version that was
\* assigned to the fetch which returned that text, so no two texts are ingested
\* under one version and no text under the version of a later fetch.
C37_TextWithItsVersion ==
    \A p \in board.ingested : p[1] = p[2]

\* The text of fetch 2 and the text of fetch 3 have both been ingested as version 3.
C37_TwoTextsOneVersion ==
    /\ << 2, 3 >> \in board.ingested
    /\ << 3, 3 >> \in board.ingested

\* C40: a completed fetch is never lost: data_refresh_completed, once set by a
\* fetch thread, stays set until the loop has copied and ingested the text of that
\* fetch, and data_refresh_pending is cleared by every fetch thread that ends,
\* with a text or with an exception, while no shutdown is requested.
C40_CompletionKept ==
    [][/\ (board.data_refresh_completed /\ ~board'.data_refresh_completed)
            => \E p \in board.ingested : p[1] = board.completed_no
       /\ \A t \in DOMAIN board.fetchers :
            (/\ board.fetchers[t].pc \in {"fetching", "completed"}
             /\ board'.fetchers[t].pc = "done"
             /\ ~board.shutdown_requested)
                => ~board'.data_refresh_pending]_vars

\* The loop has reset the flag that fetch 3 had set, and the text of fetch 3 has
\* not been ingested.
C40_CompletionErased ==
    /\ board.completed_no = 3
    /\ board.new_api_data = 3
    /\ ~board.data_refresh_completed
    /\ ~board.shutdown_requested
    /\ \A p \in board.ingested : p[1] # 3
    /\ \A t \in DOMAIN board.fetchers : board.fetchers[t].pc = "done"

====
